---- MODULE Spec2Model ----
(***************************************************************************)
(* Model of the command execution and session-state engine of the Discord  *)
(* shell bot: src/src/bot.py (CwdStore, the cd interceptor, the /run,      *)
(* /cwd and on_message handlers) and src/src/command_runner.py             *)
(* (run_command).                                                          *)
(*                                                                         *)
(* Text is modelled character by character: a Python str is a sequence of  *)
(* one-character strings, so that str.startswith, str.strip, the regular   *)
(* expressions of the interceptor and os.path are computed as the code     *)
(* computes them.                                                          *)
(***************************************************************************)
EXTENDS Integers, Sequences, FiniteSets, TLC

(***************************************************************************)
(* Python str helpers                                                      *)
(***************************************************************************)

\* Python's None
None == "None"

\* str.startswith(prefix)
startswith(s, prefix) ==
    /\ Len(prefix) <= Len(s)
    /\ SubSeq(s, 1, Len(prefix)) = prefix

\* s[i:] on a 1-based index: the characters from position i on
From(s, i) == SubSeq(s, i, Len(s))

\* the whitespace class \s of the alphabet used here
IsSpace(c) == c = " "

RECURSIVE lstrip(_, _)
\* str.lstrip(ch)
lstrip(s, ch) ==
    IF s # <<>> /\ Head(s) = ch THEN lstrip(Tail(s), ch) ELSE s

RECURSIVE rstrip(_, _)
\* str.rstrip(ch)
rstrip(s, ch) ==
    IF s # <<>> /\ s[Len(s)] = ch THEN rstrip(SubSeq(s, 1, Len(s) - 1), ch) ELSE s

\* str.strip(ch); str.strip() is strip(s, " ")
strip(s, ch) == rstrip(lstrip(s, ch), ch)

\* str.lower() on the letters that occur in the directory-change tokens
lower_char(c) ==
    CASE c = "C" -> "c"
      [] c = "D" -> "d"
      [] c = "S" -> "s"
      [] c = "E" -> "e"
      [] c = "T" -> "t"
      [] c = "L" -> "l"
      [] c = "O" -> "o"
      [] c = "A" -> "a"
      [] c = "I" -> "i"
      [] c = "N" -> "n"
      [] OTHER -> c

lower(s) == [i \in 1..Len(s) |-> lower_char(s[i])]

(***************************************************************************)
(* posixpath: join, normpath, abspath, relpath                             *)
(***************************************************************************)

RECURSIVE split_from(_, _, _)
\* str.split(sep) with the component under construction in cur
split_from(s, sep, cur) ==
    IF s = <<>> THEN <<cur>>
    ELSE IF Head(s) = sep THEN <<cur>> \o split_from(Tail(s), sep, <<>>)
    ELSE split_from(Tail(s), sep, Append(cur, Head(s)))

split(s, sep) == split_from(s, sep, <<>>)

RECURSIVE join_comps(_)
\* "/".join(comps)
join_comps(comps) ==
    IF comps = <<>> THEN <<>>
    ELSE IF Len(comps) = 1 THEN comps[1]
    ELSE comps[1] \o <<"/">> \o join_comps(Tail(comps))

DotDot == <<".", ".">>

\* the number of leading slashes normpath keeps: 2 for exactly two, else 0 or 1
initial_slashes(path) ==
    IF ~startswith(path, <<"/">>) THEN 0
    ELSE IF startswith(path, <<"/", "/">>) /\ ~startswith(path, <<"/", "/", "/">>) THEN 2
    ELSE 1

RECURSIVE norm_comps(_, _, _)
\* the loop of posixpath.normpath over the split components
norm_comps(comps, new_comps, slashes) ==
    IF comps = <<>> THEN new_comps
    ELSE LET comp == Head(comps) IN
         IF comp = <<>> \/ comp = <<".">>
         THEN norm_comps(Tail(comps), new_comps, slashes)
         ELSE IF \/ comp # DotDot
                 \/ (slashes = 0 /\ new_comps = <<>>)
                 \/ (new_comps # <<>> /\ new_comps[Len(new_comps)] = DotDot)
         THEN norm_comps(Tail(comps), Append(new_comps, comp), slashes)
         ELSE IF new_comps # <<>>
         THEN norm_comps(Tail(comps), SubSeq(new_comps, 1, Len(new_comps) - 1), slashes)
         ELSE norm_comps(Tail(comps), new_comps, slashes)

\* `path or "."`
or_dot(path) == IF path = <<>> THEN <<".">> ELSE path

\* posixpath.normpath after the leading slashes were counted
normpath_slashes(path, n) ==
    or_dot([i \in 1..n |-> "/"] \o join_comps(norm_comps(split(path, "/"), <<>>, n)))

\* posixpath.normpath
normpath(path) ==
    IF path = <<>> THEN <<".">> ELSE normpath_slashes(path, initial_slashes(path))

\* posixpath.join(a, b)
path_join(a, b) ==
    IF startswith(b, <<"/">>) THEN b
    ELSE IF a = <<>> \/ a[Len(a)] = "/" THEN a \o b
    ELSE a \o <<"/">> \o b

\* os.getcwd(): the directory the bot process was started in
getcwd == <<"/", "w">>

\* os.path.abspath
abspath(path) ==
    IF startswith(path, <<"/">>) THEN normpath(path)
    ELSE normpath(path_join(getcwd, path))

RECURSIVE common_len(_, _)
\* length of the common prefix of two component lists
common_len(a, b) ==
    IF a = <<>> \/ b = <<>> \/ Head(a) # Head(b) THEN 0
    ELSE 1 + common_len(Tail(a), Tail(b))

\* the non-empty components of an absolute path
path_comps(p) == SelectSeq(split(p, "/"), LAMBDA c : c # <<>>)

\* relpath: i components are shared, the rest of start is climbed with ".."
relpath_from(sl, pl, i) ==
    or_dot(join_comps([k \in 1..(Len(sl) - i) |-> DotDot] \o SubSeq(pl, i + 1, Len(pl))))

relpath_comps(sl, pl) == relpath_from(sl, pl, common_len(sl, pl))

\* posixpath.relpath(path, start)
relpath(path, start) ==
    relpath_comps(path_comps(abspath(start)), path_comps(abspath(path)))

(***************************************************************************)
(* Constants of the deployment                                             *)
(***************************************************************************)

\* WORK_DIR = os.getenv("WORK_DIR", "."): the default
WORK_DIR == <<".">>

\* the session keys (channel ids; a thread uses its parent's id)
Keys == {1, 2}

\* the directories of the host the model follows: the sandbox root /w, its
\* subdirectory /w/s, /w2 next to the root, and /e elsewhere
DirRoot == <<"/", "w">>
DirSub == <<"/", "w", "/", "s">>
DirSibling == <<"/", "w", "2">>
DirElsewhere == <<"/", "e">>

\* directories other programs create and remove while the bot runs
VolatileDirs == {DirSub, DirSibling}

\* directories that exist throughout
StableDirs == {<<"/">>, DirRoot, DirElsewhere}

(***************************************************************************)
(* persistence.py and the keys of the snapshot                             *)
(***************************************************************************)

Digits == <<"0", "1", "2", "3", "4", "5", "6", "7", "8", "9">>

\* str(k) for a one-digit session key
str_of_int(k) == <<Digits[k + 1]>>

\* the value of a decimal digit character, -1 for any other character
digit_value(c) ==
    IF \E i \in 1..10 : Digits[i] = c
    THEN (CHOOSE i \in 1..10 : Digits[i] = c) - 1
    ELSE -1

RECURSIVE int_digits(_, _)
int_digits(s, acc) ==
    IF s = <<>> THEN acc
    ELSE int_digits(Tail(s), 10 * acc + digit_value(Head(s)))

\* int(k) succeeds on a non-empty string of decimal digits
int_ok(s) == s # <<>> /\ \A i \in 1..Len(s) : digit_value(s[i]) >= 0

\* int(k)
int_of_str(s) == int_digits(s, 0)

\* the empty dict
EmptyMap == [x \in {} |-> <<>>]

\* the snapshot file: missing, or holding a JSON object of string values
MissingFile == [kind |-> "missing"]
ObjectFile(obj) == [kind |-> "object", obj |-> obj]

\* a snapshot file that cannot be read, one that holds no valid JSON, and one
\* that holds a valid JSON list
UnreadableFile == [kind |-> "unreadable"]
CorruptFile == [kind |-> "corrupt"]
ListFile(items) == [kind |-> "list", obj |-> items]

\* a JSON number as a value of an object
JsonNumber == <<"<number>">>

\* isinstance(v, str) for a value of a JSON object
is_str(v) == v # JsonNumber

\* load_json: what json.load read from the file, {} when open or json.load
\* raised
load_json(file) == IF file.kind \in {"object", "list"} THEN file.obj ELSE EmptyMap

\* whether what load_json returned for the file is a dict, so has items()
raw_is_dict(file) == file.kind # "list"

\* save_json(path, data): the durable file after the call; a failed write
\* (ensure_dir, open, json.dump or os.replace raising) leaves it as it was
save_json(file, data, disk_works) == IF disk_works THEN ObjectFile(data) ELSE file

\* json_escape_char with no escaping at all
json_escape_char_raw(c) == <<c>>

\* the characters json.dump writes for one character of a string
json_escape_char(c) ==
    IF c = "\"" THEN <<"\\", "\"">>
    ELSE IF c = "\\" THEN <<"\\", "\\">>
    ELSE IF c = "\n" THEN <<"\\", "n">>
    ELSE <<c>>

RECURSIVE json_escape(_)
json_escape(str) ==
    IF str = <<>> THEN <<>>
    ELSE json_escape_char(Head(str)) \o json_escape(Tail(str))

\* json.dump of a string
json_dump_str(str) == <<"\"">> \o json_escape(str) \o <<"\"">>

\* one member of the object at indent=2: two blanks, key, colon, blank, value
json_dump_member(k, v) ==
    <<" ", " ">> \o json_dump_str(k) \o <<":", " ">> \o json_dump_str(v)

RECURSIVE json_dump_members(_, _)
json_dump_next(data, keys, k) ==
    json_dump_member(k, data[k])
        \o (IF keys = {k} THEN <<>> ELSE <<",", "\n">>)
        \o json_dump_members(data, keys \ {k})

\* the members of the object, separated by a comma and a newline
json_dump_members(data, keys) ==
    IF keys = {} THEN <<>>
    ELSE json_dump_next(data, keys, CHOOSE k \in keys : TRUE)

\* json.dump(data, f, indent=2, ensure_ascii=False) for a dict of strings: the
\* text written
json_dump(data) ==
    IF DOMAIN data = {} THEN <<"{", "}">>
    ELSE <<"{", "\n">> \o json_dump_members(data, DOMAIN data) \o <<"\n", "}">>

\* the result of a failed parse, and of one that read the value val and
\* stopped before position nxt
JsonFail == [ok |-> FALSE, val |-> <<>>, nxt |-> 0]
JsonRead(val, nxt) == [ok |-> TRUE, val |-> val, nxt |-> nxt]

\* the first position from i on that holds no JSON whitespace
RECURSIVE json_skip_ws(_, _)
json_skip_ws(text, i) ==
    IF i <= Len(text) /\ text[i] \in {" ", "\n", "\t", "\r"}
    THEN json_skip_ws(text, i + 1)
    ELSE i

\* the character an escape stands for; <<>> for one json.load rejects
json_unescape(c) ==
    IF c = "n" THEN <<"\n">>
    ELSE IF c \in {"\"", "\\", "/"} THEN <<c>>
    ELSE <<>>

\* the body of a string from position i on, up to the closing quote
RECURSIVE json_scan_str(_, _, _)
json_scan_escape(text, i, acc, u) ==
    IF u = <<>> THEN JsonFail ELSE json_scan_str(text, i + 2, acc \o u)

json_scan_str(text, i, acc) ==
    IF i > Len(text) \/ text[i] = "\n" THEN JsonFail
    ELSE IF text[i] = "\"" THEN JsonRead(acc, i + 1)
    ELSE IF text[i] = "\\"
    THEN (IF i + 1 > Len(text) THEN JsonFail
          ELSE json_scan_escape(text, i, acc, json_unescape(text[i + 1])))
    ELSE json_scan_str(text, i + 1, Append(acc, text[i]))

\* a string at position i
json_read_str(text, i) ==
    IF i <= Len(text) /\ text[i] = "\"" THEN json_scan_str(text, i + 1, <<>>)
    ELSE JsonFail

\* the object is closed at position i: only whitespace may follow
json_read_end(text, acc, i) ==
    IF json_skip_ws(text, i) > Len(text) THEN JsonRead(acc, i) ELSE JsonFail

\* dict assignment while the object is read: a later member replaces an
\* earlier one of the same key
json_put(acc, k, v) ==
    [x \in DOMAIN acc \cup {k} |-> IF x = k THEN v ELSE acc[x]]

RECURSIVE json_read_members(_, _, _)
\* after a member: a comma and the next member, or the closing brace
json_after_member(text, acc, i) ==
    IF i > Len(text) THEN JsonFail
    ELSE IF text[i] = "," THEN json_read_members(text, acc, json_skip_ws(text, i + 1))
    ELSE IF text[i] = "}" THEN json_read_end(text, acc, i + 1)
    ELSE JsonFail

\* the value of a member, after its colon
json_read_value(text, acc, k, v) ==
    IF v.ok THEN json_after_member(text, json_put(acc, k, v.val), json_skip_ws(text, v.nxt))
    ELSE JsonFail

\* the colon of a member, after its key
json_read_colon(text, acc, k, i) ==
    IF k.ok /\ i <= Len(text) /\ text[i] = ":"
    THEN json_read_value(text, acc, k.val, json_read_str(text, json_skip_ws(text, i + 1)))
    ELSE JsonFail

json_key_then(text, acc, k) ==
    json_read_colon(text, acc, k, IF k.ok THEN json_skip_ws(text, k.nxt) ELSE 0)

\* a member at position i
json_read_members(text, acc, i) == json_key_then(text, acc, json_read_str(text, i))

\* an object of string values whose opening brace is before position i
json_read_object(text, i) ==
    IF i <= Len(text) /\ text[i] = "}" THEN json_read_end(text, EmptyMap, i + 1)
    ELSE json_read_members(text, EmptyMap, i)

json_load_at(text, i) ==
    IF i <= Len(text) /\ text[i] = "{"
    THEN json_read_object(text, json_skip_ws(text, i + 1))
    ELSE JsonFail

\* json.load for a text that holds an object of string values; anything else
\* is a failed read here
json_load(text) == json_load_at(text, json_skip_ws(text, 1))

\* save_json lines 24-27: the text of the durable file after a write that
\* succeeded
save_json_text(data) == json_dump(data)

\* the snapshot file that holds the given text, as load_json meets it
file_of_parse(r) == IF r.ok THEN ObjectFile(r.val) ELSE CorruptFile
file_of_text(text) == file_of_parse(json_load(text))

(***************************************************************************)
(* CwdStore                                                                *)
(***************************************************************************)

\* self.base = os.path.abspath(base_dir)
CwdStore_base == abspath(WORK_DIR)

\* os.path.isdir
isdir(fs, p) == p \in fs

\* the containment test of CwdStore.set and CwdStore.__init__
in_sandbox(absd) == startswith(absd, CwdStore_base)

\* one entry of the snapshot passes the load-time test
load_keeps(raw, k, fs) ==
    /\ int_ok(k)
    /\ is_str(raw[k])
    /\ in_sandbox(abspath(raw[k]))
    /\ isdir(fs, abspath(raw[k]))

\* the entries of the snapshot the loop of CwdStore.__init__ keeps
load_kept(raw, fs) == {k \in DOMAIN raw : load_keeps(raw, k, fs)}

\* self._cwd built from the kept entries: {int(k): abspath(v)}
load_dict(raw, kept) ==
    [cid \in {int_of_str(k) : k \in kept} |->
        abspath(raw[CHOOSE k \in kept : int_of_str(k) = cid])]

CwdStore_load(raw, fs) == load_dict(raw, load_kept(raw, fs))

\* CwdStore.__init__: self._cwd after loading the snapshot
CwdStore_init(file, fs) == CwdStore_load(load_json(file), fs)

\* CwdStore(base_dir, path): the exception the constructor ends with, or
\* self._cwd; raw.items() is called outside the try of the loop
CwdStore_new(file, fs) ==
    IF raw_is_dict(file)
    THEN [raised |-> None, cwd |-> CwdStore_init(file, fs)]
    ELSE [raised |-> "AttributeError", cwd |-> EmptyMap]

\* CwdStore._persist: data = {str(k): v for k, v in self._cwd.items()}
CwdStore_persist_data(cwdmap) ==
    [ks \in {str_of_int(k) : k \in DOMAIN cwdmap} |->
        cwdmap[CHOOSE k \in DOMAIN cwdmap : str_of_int(k) = ks]]

\* CwdStore.get
CwdStore_get(cwdmap, channel_id) ==
    IF channel_id \in DOMAIN cwdmap THEN cwdmap[channel_id] ELSE CwdStore_base

\* dict_put with the assignment lost
dict_put_lost(cwdmap, channel_id, absd) == cwdmap

\* dict_put writing the directory to every entry
dict_put_all(cwdmap, channel_id, absd) ==
    [k \in DOMAIN cwdmap \cup {channel_id} |-> absd]

\* dict assignment self._cwd[channel_id] = absd
dict_put(cwdmap, channel_id, absd) ==
    [k \in DOMAIN cwdmap \cup {channel_id} |->
        IF k = channel_id THEN absd ELSE cwdmap[k]]

\* CwdStore.set lines 99-101: the entry is stored, then the map is persisted
set_store(stored, file, absd, disk_works) ==
    [raised |-> IF disk_works THEN None ELSE "OSError",
     ret |-> IF disk_works THEN absd ELSE <<>>,
     cwd |-> stored,
     file |-> save_json(file, CwdStore_persist_data(stored), disk_works)]

\* CwdStore.set lines 95-101 on the absolute path
set_checked(cwdmap, file, channel_id, absd, fs, disk_works) ==
    IF ~in_sandbox(absd)
    THEN [raised |-> "ValueError", ret |-> <<>>, cwd |-> cwdmap, file |-> file]
    ELSE IF ~isdir(fs, absd)
    THEN [raised |-> "FileNotFoundError", ret |-> <<>>, cwd |-> cwdmap, file |-> file]
    ELSE set_store(dict_put(cwdmap, channel_id, absd), file, absd, disk_works)

\* CwdStore.set: the exception raised (None when it returns), the value
\* returned, and self._cwd and the snapshot file after the call
CwdStore_set(cwdmap, file, channel_id, new_dir, fs, disk_works) ==
    set_checked(cwdmap, file, channel_id, abspath(new_dir), fs, disk_works)

(***************************************************************************)
(* The directory-change interceptor                                        *)
(***************************************************************************)

\* _resolve_cd_target joining the argument to WORK_DIR instead of the
\* session's current directory
resolve_cd_target_from_base(cwdmap, channel_id, arg) ==
    IF strip(arg, " ") = <<>>
    THEN abspath(WORK_DIR)
    ELSE abspath(path_join(abspath(WORK_DIR), strip(arg, " ")))

\* _resolve_cd_target; arg = <<>> stands for None and for the empty string
resolve_cd_target(cwdmap, channel_id, arg) ==
    IF strip(arg, " ") = <<>>
    THEN abspath(WORK_DIR)
    ELSE abspath(path_join(CwdStore_get(cwdmap, channel_id), strip(arg, " ")))

TokCd == <<"c", "d">>
TokSetLocation == <<"S", "e", "t", "-", "L", "o", "c", "a", "t", "i", "o", "n">>

\* the text begins with the token; re.IGNORECASE when ignorecase
token_at_start(text, tok, ignorecase) ==
    IF ignorecase THEN startswith(lower(text), lower(tok))
    ELSE startswith(text, tok)

\* length of the alternative of (?:Set-Location|cd) or cd that matches at the
\* start of the text, 0 when none does
leading_token_len(text, is_windows) ==
    IF is_windows /\ token_at_start(text, TokSetLocation, TRUE) THEN Len(TokSetLocation)
    ELSE IF token_at_start(text, TokCd, is_windows) THEN Len(TokCd)
    ELSE 0

RECURSIVE count_spaces(_)
\* the length of the run of whitespace the text begins with
count_spaces(s) ==
    IF s # <<>> /\ IsSpace(Head(s)) THEN 1 + count_spaces(Tail(s)) ELSE 0

RECURSIVE count_path_chars(_)
\* the length of the run of [^;&] the text begins with
count_path_chars(s) ==
    IF s # <<>> /\ Head(s) # ";" /\ Head(s) # "&" THEN 1 + count_path_chars(Tail(s)) ELSE 0

NoMatch == [matched |-> FALSE, g1 |-> <<>>, g2 |-> <<>>]

Match(g1, g2) == [matched |-> TRUE, g1 |-> g1, g2 |-> g2]

\* (?:\s*;|\s*&&\s*|\s*$)(.*)$ after group 1 = text[g1start..e]
match_separator(text, g1start, e) ==
    IF e = Len(text)
    THEN Match(SubSeq(text, g1start, e), <<>>)
    ELSE IF text[e + 1] = ";"
    THEN Match(SubSeq(text, g1start, e), From(text, e + 2))
    ELSE IF e + 2 <= Len(text) /\ text[e + 1] = "&" /\ text[e + 2] = "&"
    THEN Match(SubSeq(text, g1start, e), lstrip(From(text, e + 3), " "))
    ELSE NoMatch

\* ([^;&]+) from position q, after sp blanks: \s+ and [^;&]+ are greedy, so
\* \s+ takes every blank unless group 1 would then be empty, in which case it
\* gives one blank back to group 1
match_path(text, sp, q, run) ==
    IF run = 0 /\ sp < 2 THEN NoMatch
    ELSE match_separator(text, IF run > 0 THEN q ELSE q - 1, q + run - 1)

\* \s+ after the token of length p
match_blanks(text, p, sp) ==
    IF p = 0 \/ sp = 0 THEN NoMatch
    ELSE match_path(text, sp, p + sp + 1, count_path_chars(From(text, p + sp + 1)))

match_token(text, p) == match_blanks(text, p, count_spaces(From(text, p + 1)))

\* re.match(r"^(?:Set-Location|cd)\s+([^;&]+)(?:\s*;|\s*&&\s*|\s*$)(.*)$", text)
\* (without Set-Location and case-sensitive when not is_windows): groups 1, 2
match_cd(text, is_windows) == match_token(text, leading_token_len(text, is_windows))

\* the interceptor without its bare form
match_bare_cd_never(text, is_windows) == FALSE

\* re.match(r"^(?:Set-Location|cd)\s*$", text, re.IGNORECASE if is_windows else 0)
match_bare_cd(text, is_windows) ==
    IF is_windows
    THEN lower(rstrip(text, " ")) \in {lower(TokSetLocation), TokCd}
    ELSE rstrip(text, " ") \in {TokSetLocation, TokCd}

NoMsg == [kind |-> "None"]

\* f"Changed directory to `{os.path.relpath(newd, os.path.abspath(WORK_DIR))}`"
ChangedMsg(newd) == [kind |-> "Changed", rel |-> relpath(newd, abspath(WORK_DIR))]

\* f"Failed to change directory: {e}"
FailedMsg(e) == [kind |-> "Failed", error |-> e]

\* what _preprocess_command_for_cwd leaves behind when it does not call set
untouched(cwdmap, file) == [cwd |-> cwdmap, file |-> file, target |-> <<>>, raised |-> None]

\* what it leaves behind after cwd_store.set(channel_id, target) gave r
touched(r, target) == [cwd |-> r.cwd, file |-> r.file, target |-> target, raised |-> r.raised]

\* lines 139-143: the bare form, after set
bare_result(r, target) ==
    [remainder |-> <<>>,
     changed |-> IF r.raised = None THEN ChangedMsg(r.ret) ELSE FailedMsg(r.raised)]
    @@ touched(r, target)

\* path_result handing the remainder back after a failed change
path_result_keeps_remainder(r, target, remainder) ==
    IF r.raised # None
    THEN [remainder |-> remainder, changed |-> FailedMsg(r.raised)] @@ touched(r, target)
    ELSE IF remainder # <<>>
    THEN [remainder |-> remainder, changed |-> NoMsg] @@ touched(r, target)
    ELSE [remainder |-> <<>>, changed |-> ChangedMsg(r.ret)] @@ touched(r, target)

\* path_result acknowledging the change next to the remainder
path_result_both(r, target, remainder) ==
    IF r.raised # None
    THEN [remainder |-> <<>>, changed |-> FailedMsg(r.raised)] @@ touched(r, target)
    ELSE [remainder |-> remainder, changed |-> ChangedMsg(r.ret)] @@ touched(r, target)

\* lines 149-157: the form with a path, after set
path_result(r, target, remainder) ==
    IF r.raised # None
    THEN [remainder |-> <<>>, changed |-> FailedMsg(r.raised)] @@ touched(r, target)
    ELSE IF remainder # <<>>
    THEN [remainder |-> remainder, changed |-> NoMsg] @@ touched(r, target)
    ELSE [remainder |-> <<>>, changed |-> ChangedMsg(r.ret)] @@ touched(r, target)

\* lines 138-140 and 148-150: set is called on the resolved target
set_target(cwdmap, file, channel_id, target, fs, disk_works, remainder, bare) ==
    IF bare
    THEN bare_result(CwdStore_set(cwdmap, file, channel_id, target, fs, disk_works), target)
    ELSE path_result(CwdStore_set(cwdmap, file, channel_id, target, fs, disk_works),
                     target, remainder)

\* lines 135-157 for the stripped text and the match m
preprocess_match(cwdmap, file, channel_id, text, m, is_windows, fs, disk_works) ==
    IF ~m.matched
    THEN IF match_bare_cd(text, is_windows)
         THEN set_target(cwdmap, file, channel_id,
                         resolve_cd_target(cwdmap, channel_id, <<>>),
                         fs, disk_works, <<>>, TRUE)
         ELSE [remainder |-> text, changed |-> NoMsg] @@ untouched(cwdmap, file)
    ELSE set_target(cwdmap, file, channel_id,
                    resolve_cd_target(cwdmap, channel_id,
                                      strip(strip(strip(m.g1, " "), "\""), "'")),
                    fs, disk_works, strip(m.g2, " "), FALSE)

\* lines 125-133 for the stripped text
preprocess_text(cwdmap, file, channel_id, text, is_windows, fs, disk_works) ==
    IF text = <<>>
    THEN [remainder |-> <<>>, changed |-> NoMsg] @@ untouched(cwdmap, file)
    ELSE preprocess_match(cwdmap, file, channel_id, text, match_cd(text, is_windows),
                          is_windows, fs, disk_works)

\* _preprocess_command_for_cwd: the pair returned (remainder <<>> stands for
\* None: the function never returns an empty string there), the store and the
\* snapshot file after the call, and two locals of the call: the target handed
\* to cwd_store.set (<<>> when set is not called) and the exception it raised
preprocess_command_for_cwd(cwdmap, file, channel_id, command, is_windows, fs, disk_works) ==
    preprocess_text(cwdmap, file, channel_id, strip(command, " "), is_windows, fs, disk_works)

(***************************************************************************)
(* os_utils.py and command_runner.py                                       *)
(***************************************************************************)

\* detect_os() for a value of platform.system()
detect_os(sys) ==
    IF sys = "Windows"
    THEN [name |-> "Windows", shell |-> "powershell", is_windows |-> TRUE]
    ELSE IF sys = "Darwin"
    THEN [name |-> "Darwin", shell |-> "/bin/bash", is_windows |-> FALSE]
    ELSE [name |-> "Linux", shell |-> "/bin/bash", is_windows |-> FALSE]

\* wrap_command_for_shell with the unix vector on every platform
wrap_command_unix_only(command, osinfo) == <<osinfo.shell, "-lc", command>>

\* wrap_command_for_shell: the argv of the child
wrap_command_for_shell(command, osinfo) ==
    IF osinfo.is_windows
    THEN <<osinfo.shell, "-NoLogo", "-NoProfile", "-Command", command>>
    ELSE <<osinfo.shell, "-lc", command>>

\* the exit code run_command reports when the deadline expires
TIMEOUT_EXIT_CODE == 124

\* asyncio.create_subprocess_exec(*argv, cwd=cwd): the child starts when the
\* working directory exists and the host can start the shell; it raises
\* otherwise
create_subprocess_ok(fs, work_dir, host_ok) == host_ok /\ isdir(fs, work_dir)

\* proc.returncode or 0 giving 0 whatever the status
returncode_always_0(returncode) == 0

\* proc.returncode or 0; returncode is <<>> for None, <<rc>> otherwise
returncode_or_0(returncode) ==
    IF returncode = <<>> THEN 0 ELSE returncode[1]

\* the largest exit status a command of the model ends with on its own
MaxStatus == 1

\* the exit statuses a command ends with on its own
ChildStatuses == 0..MaxStatus

\* what a command wrote when it ended with status rc: a successful one wrote
\* to stdout, a failed one to stderr
ChildOutput(rc) ==
    IF rc = 0 THEN [stdout |-> "hello", stderr |-> ""]
    ELSE [stdout |-> "", stderr |-> "oops"]

\* stdout_b.decode(errors='replace') if stdout_b else ''
decode_or_empty(bytes) == IF bytes # "" THEN bytes ELSE ""

\* the status of a child ended by proc.kill()
KilledStatus == 0 - 9

\* a Python slice index on a text of n characters, as a count of characters
\* from the start: a negative index counts from the end, and both are clamped
slice_index(i, n) ==
    IF i < 0 THEN (IF n + i < 0 THEN 0 ELSE n + i)
    ELSE (IF i > n THEN n ELSE i)

\* text[:i]
slice_to(text, i) == SubSeq(text, 1, slice_index(i, Len(text)))

\* text[i:]
slice_from(text, i) == SubSeq(text, slice_index(i, Len(text)) + 1, Len(text))

\* int(limit * num / den) for the factors 0.6 and 0.35: the product cut
\* toward zero (for the limits used here the double product cuts to the same
\* integer as the exact one)
int_of_share(limit, num, den) ==
    IF limit >= 0 THEN (limit * num) \div den
    ELSE 0 - (((0 - limit) * num) \div den)

RECURSIVE format_nat(_)
format_nat(n) ==
    IF n < 10 THEN <<Digits[n + 1]>>
    ELSE format_nat(n \div 10) \o <<Digits[(n % 10) + 1]>>

\* f"{omitted}" for an int
format_int(n) == IF n < 0 THEN <<"-">> \o format_nat(0 - n) ELSE format_nat(n)

\* "\n...\n[omitted " and " chars]\n...\n"
MarkerOpen ==
    <<"\n", ".", ".", ".", "\n", "[", "o", "m", "i", "t", "t", "e", "d", " ">>
MarkerClose ==
    <<" ", "c", "h", "a", "r", "s", "]", "\n", ".", ".", ".", "\n">>

\* the return of summarize_output for a text longer than limit
summarize_cut(text, head, tail) ==
    head \o MarkerOpen \o format_int(Len(text) - Len(head) - Len(tail))
         \o MarkerClose \o tail

\* summarize_output(text, limit)
summarize_output(text, limit) ==
    IF Len(text) <= limit THEN text
    ELSE summarize_cut(text,
                       slice_to(text, int_of_share(limit, 6, 10)),
                       slice_from(text, 0 - int_of_share(limit, 35, 100)))

(***************************************************************************)
(* gemini_client.py                                                        *)
(***************************************************************************)

\* str.strip() with no argument, on the whitespace of the oracle's texts
RECURSIVE lstrip_ws(_)
lstrip_ws(str) ==
    IF str # <<>> /\ Head(str) \in {" ", "\n", "\t"} THEN lstrip_ws(Tail(str)) ELSE str

RECURSIVE rstrip_ws(_)
rstrip_ws(str) ==
    IF str # <<>> /\ str[Len(str)] \in {" ", "\n", "\t"}
    THEN rstrip_ws(SubSeq(str, 1, Len(str) - 1))
    ELSE str

strip_ws(str) == rstrip_ws(lstrip_ws(str))

\* what the HTTP call of generate_text met: an exception out of client.post,
\* resp.raise_for_status() or resp.json(), or a body with the given text in
\* its first candidate (no text at all is the empty text)
OracleError == [kind |-> "error"]
OracleText(text) == [kind |-> "text", text |-> text]

\* generate_text: the exception it ends with, or the text it returns
generate_text(resp) ==
    IF resp.kind = "error" THEN [raised |-> "HTTPError", text |-> <<>>]
    ELSE [raised |-> None, text |-> strip_ws(resp.text)]

\* the positions of character c in the text
positions(text, c) == {i \in 1..Len(text) : text[i] = c}

\* the smallest and the largest of a non-empty set of positions
first_of(ps) == CHOOSE i \in ps : \A j \in ps : i <= j
last_of(ps) == CHOOSE i \in ps : \A j \in ps : j <= i

\* re.search(r"\[.*\]", text, re.DOTALL): from the first "[" to the last "]"
\* after it; <<>> when there is no match
blob_between(text, opens, closes) ==
    IF opens # {} /\ closes # {} /\ first_of(opens) < last_of(closes)
    THEN SubSeq(text, first_of(opens), last_of(closes))
    ELSE <<>>

search_array(text) == blob_between(text, positions(text, "["), positions(text, "]"))

RECURSIVE json_read_items(_, _, _)
\* after an item of the list: a comma and the next item, or the closing bracket
json_after_item(text, acc, i) ==
    IF i > Len(text) THEN JsonFail
    ELSE IF text[i] = "," THEN json_read_items(text, acc, json_skip_ws(text, i + 1))
    ELSE IF text[i] = "]" THEN json_read_end(text, acc, i + 1)
    ELSE JsonFail

json_item_then(text, acc, v) ==
    IF v.ok THEN json_after_item(text, Append(acc, v.val), json_skip_ws(text, v.nxt))
    ELSE JsonFail

\* an item at position i: only a string is read; a list with any other item
\* fails the test all(isinstance(x, str) ...) and is treated as a failed read
json_read_items(text, acc, i) == json_item_then(text, acc, json_read_str(text, i))

json_read_list(text, i) ==
    IF i <= Len(text) /\ text[i] = "]" THEN json_read_end(text, <<>>, i + 1)
    ELSE json_read_items(text, <<>>, i)

\* json.loads(blob) followed by the test that it is a list of strings
json_loads_str_list(blob) ==
    IF blob # <<>> /\ blob[1] = "[" THEN json_read_list(blob, json_skip_ws(blob, 2))
    ELSE JsonFail

\* the backquote character, which cannot be written inside a string here
Backtick == "backquote"

\* text.splitlines()[0] for a non-empty text
first_line_upto(text, newlines) ==
    IF newlines = {} THEN text ELSE SubSeq(text, 1, first_of(newlines) - 1)

first_line(text) == first_line_upto(text, positions(text, "\n"))

\* the fallback of to_command_from_nl for the style
fallback_bash ==
    <<"e", "c", "h", "o", " ", "'", "U", "n", "a", "b", "l", "e", " ", "t",
      "o", " ", "d", "e", "t", "e", "r", "m", "i", "n", "e", " ", "a", " ",
      "c", "o", "m", "m", "a", "n", "d", "'">>
fallback_powershell ==
    <<"W", "r", "i", "t", "e", "-", "O", "u", "t", "p", "u", "t", " ", "'",
      "U", "n", "a", "b", "l", "e", " ", "t", "o", " ", "d", "e", "t", "e",
      "r", "m", "i", "n", "e", " ", "a", " ", "c", "o", "m", "m", "a", "n",
      "d", "'">>
fallback(windows) == IF windows THEN fallback_powershell ELSE fallback_bash

\* `first_line or fallback`
first_line_or(text, windows) ==
    IF text # <<>> /\ first_line(text) # <<>> THEN first_line(text)
    ELSE fallback(windows)

\* to_command_from_nl: the exception it ends with, or the list of its command
single_of(g, windows) ==
    IF g.raised # None THEN [raised |-> g.raised, plan |-> <<>>, fell_back |-> TRUE]
    ELSE [raised |-> None, fell_back |-> TRUE,
          plan |-> <<first_line_or(strip(strip_ws(g.text), Backtick), windows)>>]

to_command_from_nl(resp, windows) == single_of(generate_text(resp), windows)

\* to_commands_from_nl lines 113-125, for the list read from the text
plan_of(arr, second, windows, max_steps) ==
    IF arr.ok
    THEN [raised |-> None, fell_back |-> FALSE, plan |-> slice_to(arr.val, max_steps)]
    ELSE to_command_from_nl(second, windows)

commands_of(g, second, windows, max_steps) ==
    IF g.raised # None THEN [raised |-> g.raised, plan |-> <<>>, fell_back |-> FALSE]
    ELSE plan_of(json_loads_str_list(search_array(strip_ws(g.text))),
                 second, windows, max_steps)

\* to_commands_from_nl: the exception it ends with, or the plan it returns,
\* for what the first call of the oracle met and what a second call meets
to_commands_from_nl(first, second, windows, max_steps) ==
    commands_of(generate_text(first), second, windows, max_steps)

(***************************************************************************)
(* Inputs                                                                  *)
(***************************************************************************)

C_ls == <<"l", "s">>
C_cd == <<"c", "d">>
C_cd_s == <<"c", "d", " ", "s">>
C_cd_s_and_ls == <<"c", "d", " ", "s", " ", "&", "&", " ", "l", "s">>
C_cd_up == <<"c", "d", " ", ".", ".">>
C_cd_sibling == <<"c", "d", " ", ".", ".", "/", "w", "2">>
C_cd_elsewhere == <<"c", "d", " ", "/", "e">>
C_cd_n_and_ls == <<"c", "d", " ", "n", " ", "&", "&", " ", "l", "s">>
C_cd_quoted_semi_ls == <<"c", "d", " ", "'", "s", "'", ";", " ", "l", "s">>
C_cd_s_amp_ls == <<"c", "d", " ", "s", " ", "&", " ", "l", "s">>
C_SetLocation_s == <<"S", "e", "t", "-", "L", "o", "c", "a", "t", "i", "o", "n", " ", "s">>
C_SetLocation == <<"S", "e", "t", "-", "L", "o", "c", "a", "t", "i", "o", "n">>
C_CD_s == <<"C", "D", " ", "s">>
C_blank == <<" ">>
C_cd_up_semi_ls == <<"c", "d", " ", ".", ".", ";", " ", "l", "s">>

\* the texts users send as a message in command mode or as /run command
Commands ==
    {C_ls, C_cd, C_cd_s, C_cd_s_and_ls, C_cd_up, C_cd_sibling, C_cd_elsewhere,
     C_cd_n_and_ls, C_cd_quoted_semi_ls, C_cd_s_amp_ls, C_SetLocation_s,
     C_SetLocation, C_CD_s, C_blank, C_cd_up_semi_ls}

\* texts of the planning oracle
\* ["ls", "cd s", "ls"]
T_ls_cd_ls ==
    <<"[", "\"", "l", "s", "\"", ",", " ", "\"", "c", "d", " ", "s", "\"",
      ",", " ", "\"", "l", "s", "\"", "]">>
\* ["cd n && ls", "ls"]
T_cdn_ls ==
    <<"[", "\"", "c", "d", " ", "n", " ", "&", "&", " ", "l", "s", "\"",
      ",", " ", "\"", "l", "s", "\"", "]">>
\* the list ["cd s && ls", "cd", "ls"] inside a code fence
T_fenced ==
    <<Backtick, Backtick, Backtick, "j", "s", "o", "n", "\n", "[", "\"",
      "c", "d", " ", "s", " ", "&", "&", " ", "l", "s", "\"", ",", " ",
      "\"", "c", "d", "\"", ",", " ", "\"", "l", "s", "\"", "]", "\n",
      Backtick, Backtick, Backtick>>
\* []
T_empty_list ==
    <<"[", "]">>
\* ls, with no list
T_prose ==
    <<"l", "s">>
\* [1]
T_numbers ==
    <<"[", "1", "]">>
\* ls between backquotes
T_quoted_ls ==
    <<Backtick, "l", "s", Backtick>>

\* the largest CHAT_MAX_STEPS of a deployment
MaxSteps == 3

\* what the two calls of the oracle meet for one message: the first asks for
\* a plan, the second (made only when no list of strings was read) for one
\* command
Answer(first, second) == [first |-> first, second |-> second]

OracleAnswers ==
    {Answer(OracleText(T_ls_cd_ls), OracleError),
     Answer(OracleText(T_cdn_ls), OracleError),
     Answer(OracleText(T_fenced), OracleError),
     Answer(OracleText(T_empty_list), OracleError),
     Answer(OracleError, OracleText(T_quoted_ls)),
     Answer(OracleText(T_prose), OracleError),
     Answer(OracleText(T_numbers), OracleText(T_quoted_ls)),
     Answer(OracleText(<<>>), OracleText(<<>>))}

\* the path arguments of /cwd
CwdArgs == {<<"s">>, <<".", ".">>, <<".", ".", "/", "w", "2">>, <<"n">>}

\* the snapshot files the process may find at startup
StartupFiles ==
    {MissingFile,
     ObjectFile(<<"1">> :> DirSub),
     ObjectFile((<<"1">> :> DirSibling) @@ (<<"2">> :> DirElsewhere)),
     ObjectFile((<<"x">> :> DirSub) @@ (<<"2">> :> <<"s">>))}

(***************************************************************************)
(* State                                                                   *)
(***************************************************************************)

VARIABLES
    system,      \* platform.system() of the host
    dirs,        \* the directories that exist on the host
    cwd,         \* cwd_store._cwd
    cwd_file,    \* the snapshot file at CWD_STORE_PATH
    disk_works,  \* whether writing the snapshot file succeeds
    modes,       \* mode_store._modes
    tasks,       \* the handling tasks in flight
    probe,       \* one call of a function taken alone: its arguments and result
    allow        \* ALLOW_EVERYONE and the ALLOWED_*_IDS sets read at import

vars == <<system, dirs, cwd, cwd_file, disk_works, modes, tasks, probe, allow>>

\* no function is being called alone
NoProbe == [fn |-> "none"]

(***************************************************************************)
(* Allow-lists: bot.py lines 24, 28-30 and 160-208                         *)
(***************************************************************************)

\* interaction.guild / message.guild of a direct message
NoGuild == 0

\* a channel that is no thread has no parent
NoParent == 0

\* who sent an event and where: the author, whether it is a bot, whether it
\* administers the guild, the guild, the channel and the parent of a thread
Sender(user, bot, admin, guild, id, parent) ==
    [user |-> user, bot |-> bot, admin |-> admin, guild |-> guild,
     channel |-> [id |-> id, parent |-> parent]]

S_admin  == Sender(1, FALSE, TRUE, 1, 1, NoParent)
S_member == Sender(2, FALSE, FALSE, 1, 1, NoParent)
S_thread == Sender(2, FALSE, TRUE, 2, 3, 2)
S_other  == Sender(1, FALSE, FALSE, 2, 2, NoParent)
S_dm     == Sender(1, FALSE, FALSE, NoGuild, 4, NoParent)
S_bot    == Sender(3, TRUE, FALSE, 1, 1, NoParent)

\* the members and users that send interactions, and the authors of messages
Users == {S_admin, S_member, S_thread, S_other, S_dm}
Authors == Users \cup {S_bot}

\* ALLOW_EVERYONE, ALLOWED_USER_IDS, ALLOWED_GUILD_IDS, ALLOWED_CHANNEL_IDS
AllowLists(everyone, users, guilds, channels) ==
    [everyone |-> everyone, users |-> users, guilds |-> guilds,
     channels |-> channels]

\* the environment sets none of them
A_open == AllowLists(TRUE, {}, {}, {})

A_users    == AllowLists(TRUE, {1}, {}, {})
A_guilds   == AllowLists(TRUE, {}, {1}, {})
A_channels == AllowLists(TRUE, {}, {}, {2})
A_admins   == AllowLists(FALSE, {}, {}, {})
A_all      == AllowLists(TRUE, {2}, {2}, {2})

\* the deployments with a restriction
AllowConfigs == {A_users, A_guilds, A_channels, A_admins, A_all}

\* _channel_key_from_obj
channel_key_from_obj(ch) == IF ch.parent # NoParent THEN ch.parent ELSE ch.id

\* the guild restriction of _is_allowed_location: lines 183-185
guild_allowed(guilds, guild) ==
    guilds = {} \/ (guild # NoGuild /\ guild \in guilds)

\* the channel restriction of _is_allowed_location: lines 187-190
channel_allowed(channels, channel) ==
    channels = {} \/ channel_key_from_obj(channel) \in channels

\* _is_allowed_location
is_allowed_location(lists, channel, guild) ==
    guild_allowed(lists.guilds, guild) /\ channel_allowed(lists.channels, channel)

\* _is_allowed_user letting every user through
is_allowed_user_anyone(lists, user) == TRUE

\* _is_allowed_user
is_allowed_user(lists, user) == lists.users = {} \/ user \in lists.users

\* user_allowed
user_allowed(lists, s) ==
    lists.everyone \/ (IF s.guild # NoGuild THEN s.admin ELSE TRUE)

\* the two silent gates every handler passes an event through
admitted(lists, s) ==
    /\ is_allowed_user(lists, s.user)
    /\ is_allowed_location(lists, s.channel, s.guild)

\* the handling tasks that can be in flight together
TaskIds == {"t1"}

\* DEFAULT_MODE = os.getenv("DEFAULT_MODE", "command")
DEFAULT_MODE == "command"

\* ModeStore.get
ModeStore_get(m, channel_id) ==
    IF channel_id \in DOMAIN m THEN m[channel_id] ELSE DEFAULT_MODE

\* ModeStore.set: self._modes after the call
ModeStore_set(m, channel_id, mode) ==
    LET v == IF mode \in {"command", "chat"} THEN mode ELSE DEFAULT_MODE
    IN [k \in DOMAIN m \cup {channel_id} |-> IF k = channel_id THEN v ELSE m[k]]

\* ModeStore.__init__: self._modes after loading the snapshot
ModeStore_init(raw) ==
    LET kept == {k \in DOMAIN raw : raw[k] \in {"command", "chat"}}
    IN [cid \in {int_of_str(k) : k \in kept} |->
          raw[CHOOSE k \in kept : int_of_str(k) = cid]]

\* ModeStore(default_mode, path): the exception the constructor ends with, or
\* self._modes; int(k) is evaluated for every item whose value is a mode, with
\* no try around it
ModeStore_raises(raw) ==
    \E k \in DOMAIN raw : raw[k] \in {"command", "chat"} /\ ~int_ok(k)

ModeStore_loaded(raw) ==
    IF ModeStore_raises(raw)
    THEN [raised |-> "ValueError", modes |-> EmptyMap]
    ELSE [raised |-> None, modes |-> ModeStore_init(raw)]

ModeStore_new(file) ==
    IF raw_is_dict(file) THEN ModeStore_loaded(load_json(file))
    ELSE [raised |-> "AttributeError", modes |-> EmptyMap]

\* ModeStore._persist: data = {str(k): v for k, v in self._modes.items()}
ModeStore_persist_data(m) ==
    [ks \in {str_of_int(k) : k \in DOMAIN m} |->
        m[CHOOSE k \in DOMAIN m : str_of_int(k) = ks]]

\* the mode snapshot the process finds at startup: channel 1 was put in chat
\* mode, channel 2 was never set
StartupModes == (<<"1">> :> "chat") @@ (<<"3">> :> "on")

\* a message the handler sends to the channel
Sent(kind, idx, code) == [kind |-> kind, idx |-> idx, code |-> code]

\* no event is being handled
NoSender == [user |-> 0]

\* a task slot with no handler running
IdleTask ==
    [handler |-> "idle", pc |-> "idle", key |-> 0, plan |-> <<>>, idx |-> 0,
     remainder |-> <<>>, changed |-> NoMsg, target |-> <<>>, raised |-> None,
     pre |-> <<>>, post |-> <<>>, fs_seen |-> {},
     work_dir |-> <<>>, command |-> <<>>,
     child |-> "none", returncode |-> <<>>, child_out |-> "", child_err |-> "",
     timed_out |-> FALSE, exit_code |-> <<>>, stdout |-> "", stderr |-> "",
     spawned |-> 0, intercepted |-> {}, invoked |-> {}, out |-> <<>>,
     oracle |-> "none", max_steps |-> 0, crash |-> None, sender |-> NoSender,
     arg |-> <<>>]

is_windows == detect_os(system).is_windows

Init ==
    /\ system \in {"Linux", "Windows"}
    /\ dirs \in {StableDirs \cup v : v \in SUBSET VolatileDirs}
    /\ cwd_file \in StartupFiles
    /\ cwd = CwdStore_init(cwd_file, dirs)
    /\ disk_works = TRUE
    /\ modes = ModeStore_init(StartupModes)
    /\ tasks = [t \in TaskIds |-> IdleTask]
    /\ probe = NoProbe
    /\ allow = A_open

(***************************************************************************)
(* Handlers                                                                *)
(***************************************************************************)

\* run_command up to the await on the child: the task after the call to
\* create_subprocess_exec with cwd=work_dir
spawn_child(task, command, work_dir, fs, host_ok) ==
    IF create_subprocess_ok(fs, work_dir, host_ok)
    THEN [task EXCEPT !.pc = "communicate", !.work_dir = work_dir,
                      !.command = command, !.child = "running",
                      !.returncode = <<>>, !.child_out = "", !.child_err = "",
                      !.timed_out = FALSE, !.exit_code = <<>>,
                      !.stdout = "", !.stderr = "",
                      !.spawned = @ + 1, !.invoked = @ \cup {task.idx}]
    ELSE [task EXCEPT !.pc = "crashed", !.crash = "OSError", !.work_dir = work_dir,
                      !.command = command, !.invoked = @ \cup {task.idx}]

\* the task after _preprocess_command_for_cwd returned r for step task.idx
after_preprocess(task, r, before) ==
    [task EXCEPT !.remainder = r.remainder, !.changed = r.changed,
                 !.target = r.target, !.raised = r.raised,
                 !.pre = CwdStore_get(before, task.key),
                 !.post = CwdStore_get(r.cwd, task.key),
                 !.fs_seen = dirs,
                 !.intercepted = @ \cup {task.idx}]

\* `changed and not remainder`
only_changed(r) == r.changed # NoMsg /\ r.remainder = <<>>

\* `remainder or command`
remainder_or(remainder, command) == IF remainder # <<>> THEN remainder ELSE command

\* run_cmd lines 335-340, on_message lines 426-431 and 447-452: after the
\* interceptor returned r, either go and send its message or run what is left
\* in the session directory read back from the store; no await in between
intercept_then_run(task, r, fs, host_ok) ==
    IF only_changed(r)
    THEN [task EXCEPT !.pc = "send_changed"]
    ELSE spawn_child(task, remainder_or(r.remainder, task.plan[task.idx]),
                     CwdStore_get(r.cwd, task.key), fs, host_ok)

\* the handler of slot t intercepted a step with result r and went on to nxt
Intercepted(t, r, nxt) ==
    /\ tasks' = [tasks EXCEPT ![t] = nxt]
    /\ cwd' = r.cwd
    /\ cwd_file' = r.file

\* the interceptor applied to step task.idx of the task's plan
preprocess_step(task) ==
    preprocess_command_for_cwd(cwd, cwd_file, task.key, task.plan[task.idx],
                               is_windows, dirs, disk_works)

InterceptAndRun(t, task, r, host_ok) ==
    Intercepted(t, r, intercept_then_run(after_preprocess(task, r, cwd), r, dirs, host_ok))

\* some member of a guild whose events pass the gates of run_cmd lines 323-330
\* and on_message lines 406-409 writes in the channel of session key k
passes_for(lists, k) ==
    \E s \in Users :
        /\ s.guild # NoGuild
        /\ channel_key_from_obj(s.channel) = k
        /\ user_allowed(lists, s)
        /\ admitted(lists, s)

\* the task of /run after the gates: run_cmd lines 331-333
run_task(k, c) ==
    [IdleTask EXCEPT !.handler = "run", !.pc = "intercept", !.key = k,
                     !.plan = <<c>>, !.idx = 1]

\* the task of a message with text after the gates: on_message lines 418-441
message_task(modev, k, content) ==
    IF modev = "command"
    THEN [IdleTask EXCEPT !.handler = "command", !.pc = "intercept", !.key = k,
                          !.plan = <<content>>, !.idx = 1]
    ELSE [IdleTask EXCEPT !.handler = "chat", !.pc = "oracle", !.key = k]

\* /run: run_cmd up to `await interaction.response.defer`
StartRun(t, k, c) ==
    /\ tasks[t].pc = "idle"
    /\ passes_for(allow, k)
    /\ tasks' = [tasks EXCEPT ![t] = run_task(k, c)]
    /\ UNCHANGED <<probe, allow, system, dirs, cwd, cwd_file, disk_works, modes>>

\* on_message up to `async with message.channel.typing()`: the mode is read,
\* an empty message is ignored
StartMessage(t, k, content) ==
    /\ tasks[t].pc = "idle"
    /\ passes_for(allow, k)
    /\ strip(content, " ") # <<>>
    /\ tasks' = [tasks EXCEPT ![t] =
                    message_task(ModeStore_get(modes, k), k, strip(content, " "))]
    /\ UNCHANGED <<probe, allow, system, dirs, cwd, cwd_file, disk_works, modes>>

\* run_cmd lines 335-340 and on_message lines 426-431
Intercept(t) ==
    /\ tasks[t].pc = "intercept"
    /\ tasks[t].handler \in {"run", "command"}
    /\ \E host_ok \in BOOLEAN :
         InterceptAndRun(t, tasks[t], preprocess_step(tasks[t]), host_ok)
    /\ UNCHANGED <<probe, allow, system, dirs, disk_works, modes>>

\* tasks[t] once the oracle answered with the plan
with_plan(task, plan) ==
    IF Len(plan) <= 1
    THEN [task EXCEPT !.handler = "single", !.plan = plan, !.idx = 1]
    ELSE [task EXCEPT !.handler = "plan", !.plan = plan, !.idx = 0, !.pc = "announce"]

\* how the plan of the message came about: "error" when the first call of the
\* oracle failed, "fallback" when no list of strings was read from its text,
\* "planned" otherwise
oracle_outcome(first, r) ==
    IF first.kind = "error" THEN "error"
    ELSE IF r.fell_back THEN "fallback"
    ELSE "planned"

\* tasks[t] once to_commands_from_nl ended with r
oracle_task(task, first, r, max_steps) ==
    [task EXCEPT !.oracle = oracle_outcome(first, r), !.max_steps = max_steps,
                 !.plan = r.plan]

\* on_message lines 444-452 and 462 for the result r of to_commands_from_nl:
\* an exception leaves on_message; commands[0] of an empty plan raises
\* IndexError; a plan of one step is intercepted and run at once, a longer one
\* is announced
OraclePlanned(t, task, r) ==
    IF r.raised # None
    THEN /\ tasks' = [tasks EXCEPT ![t] = [task EXCEPT !.pc = "crashed", !.crash = r.raised]]
         /\ UNCHANGED <<probe, allow, cwd, cwd_file>>
    ELSE IF r.plan = <<>>
    THEN /\ tasks' = [tasks EXCEPT ![t] = [task EXCEPT !.pc = "crashed", !.crash = "IndexError"]]
         /\ UNCHANGED <<probe, allow, cwd, cwd_file>>
    ELSE IF Len(r.plan) <= 1
    THEN \E host_ok \in BOOLEAN :
           InterceptAndRun(t, with_plan(task, r.plan),
                           preprocess_step(with_plan(task, r.plan)), host_ok)
    ELSE /\ tasks' = [tasks EXCEPT ![t] = with_plan(task, r.plan)]
         /\ UNCHANGED <<probe, allow, cwd, cwd_file>>

OracleEnded(t, first, r, max_steps) ==
    OraclePlanned(t, oracle_task(tasks[t], first, r, max_steps), r)

\* on_message lines 443-452 and 462: max_steps is read from CHAT_MAX_STEPS and
\* to_commands_from_nl ends
OracleReturn(t, a, max_steps) ==
    /\ tasks[t].pc = "oracle"
    /\ OracleEnded(t, a.first,
                   to_commands_from_nl(a.first, a.second, is_windows, max_steps),
                   max_steps)
    /\ UNCHANGED <<probe, allow, system, dirs, disk_works, modes>>

\* the plan's task after step task.idx was intercepted with result r
plan_intercepted(task, r) ==
    [task EXCEPT !.pc = IF only_changed(r) THEN "send_changed" ELSE "send_header"]

PlanStepDone(t, task, r) ==
    Intercepted(t, r, plan_intercepted(after_preprocess(task, r, cwd), r))

\* on_message lines 464-469: the next step of the plan is intercepted, after
\* the previous message was sent
PlanStep(t) ==
    /\ tasks[t].pc = "next_step"
    /\ PlanStepDone(t, [tasks[t] EXCEPT !.idx = @ + 1],
                    preprocess_step([tasks[t] EXCEPT !.idx = @ + 1]))
    /\ UNCHANGED <<probe, allow, system, dirs, disk_works, modes>>

\* on_message line 462: "Planning n step(s)" is sent
Announce(t) ==
    /\ tasks[t].pc = "announce"
    /\ tasks' = [tasks EXCEPT ![t] =
          [@ EXCEPT !.pc = "next_step",
                    !.out = Append(@, Sent("planning", 0, Len(tasks[t].plan)))]]
    /\ UNCHANGED <<probe, allow, system, dirs, cwd, cwd_file, disk_works, modes>>

\* the task once the header of step task.idx was sent
header_sent(task) == [task EXCEPT !.out = Append(@, Sent("header", task.idx, 0))]

\* on_message lines 469-471: the step header is sent, then the session
\* directory is read and the command started
SendHeader(t) ==
    /\ tasks[t].pc = "send_header"
    /\ \E host_ok \in BOOLEAN :
         tasks' = [tasks EXCEPT ![t] =
            spawn_child(header_sent(tasks[t]),
                        remainder_or(tasks[t].remainder, tasks[t].plan[tasks[t].idx]),
                        CwdStore_get(cwd, tasks[t].key), dirs, host_ok)]
    /\ UNCHANGED <<probe, allow, system, dirs, cwd, cwd_file, disk_works, modes>>

\* the child ends on its own with status rc
ChildExit(t, rc) ==
    /\ tasks[t].child = "running"
    /\ tasks' = [tasks EXCEPT ![t] =
          [@ EXCEPT !.child = "exited", !.returncode = <<rc>>,
                    !.child_out = ChildOutput(rc).stdout,
                    !.child_err = ChildOutput(rc).stderr]]
    /\ UNCHANGED <<probe, allow, system, dirs, cwd, cwd_file, disk_works, modes>>

\* run_command lines 31, 37-39: communicate() completes before the deadline
CommunicateReturn(t) ==
    /\ tasks[t].pc = "communicate"
    /\ tasks[t].child = "exited"
    /\ tasks' = [tasks EXCEPT ![t] =
          [@ EXCEPT !.pc = "send_result",
                    !.exit_code = <<returncode_or_0(tasks[t].returncode)>>,
                    !.stdout = decode_or_empty(tasks[t].child_out),
                    !.stderr = decode_or_empty(tasks[t].child_err)]]
    /\ UNCHANGED <<probe, allow, system, dirs, cwd, cwd_file, disk_works, modes>>

\* the deadline expires and the timed-out result is returned at once, with
\* neither proc.kill() nor proc.wait()
Timeout_no_kill(t) ==
    /\ tasks[t].pc = "communicate"
    /\ tasks' = [tasks EXCEPT ![t] =
          [@ EXCEPT !.pc = "send_result", !.timed_out = TRUE,
                    !.exit_code = <<TIMEOUT_EXIT_CODE>>,
                    !.stdout = "", !.stderr = "Command timed out"]]
    /\ UNCHANGED <<probe, allow, system, dirs, cwd, cwd_file, disk_works, modes>>

\* run_command lines 32-34: the deadline expires while communicate() is
\* pending; proc.kill() signals a child that still runs, then proc.wait()
Timeout(t) ==
    /\ tasks[t].pc = "communicate"
    /\ tasks' = [tasks EXCEPT ![t] =
          [@ EXCEPT !.pc = "wait", !.timed_out = TRUE,
                    !.child = IF @ = "running" THEN "killed" ELSE @]]
    /\ UNCHANGED <<probe, allow, system, dirs, cwd, cwd_file, disk_works, modes>>

\* the killed child terminates
KillTakesEffect(t) ==
    /\ tasks[t].child = "killed"
    /\ tasks' = [tasks EXCEPT ![t] =
          [@ EXCEPT !.child = "exited", !.returncode = <<KilledStatus>>]]
    /\ UNCHANGED <<probe, allow, system, dirs, cwd, cwd_file, disk_works, modes>>

\* run_command lines 34-35: proc.wait() returns, the timed-out result is built
WaitReturn(t) ==
    /\ tasks[t].pc = "wait"
    /\ tasks[t].child = "exited"
    /\ tasks' = [tasks EXCEPT ![t] =
          [@ EXCEPT !.pc = "send_result", !.exit_code = <<TIMEOUT_EXIT_CODE>>,
                    !.stdout = "", !.stderr = "Command timed out"]]
    /\ UNCHANGED <<probe, allow, system, dirs, cwd, cwd_file, disk_works, modes>>

\* more_steps seeing no step after the current one
more_steps_never(task) == FALSE

\* whether the plan has a step after the current one
more_steps(task) == task.handler = "plan" /\ task.idx < Len(task.plan)

\* after_report without the break on a nonzero exit code
after_report_no_break(task, code) ==
    IF task.handler # "plan" THEN "done"
    ELSE IF more_steps(task) THEN "next_step"
    ELSE "done"

\* where the handler goes after the report of exit code `code`
after_report(task, code) ==
    IF task.handler # "plan" THEN "done"
    ELSE IF code # 0 THEN "send_stop"
    ELSE IF more_steps(task) THEN "next_step"
    ELSE "done"

\* the result message is sent (run_cmd line 346, on_message lines 438, 459,
\* 477); in a plan a nonzero exit code leads to the stop notice (line 478)
SendResult(t) ==
    /\ tasks[t].pc = "send_result"
    /\ tasks' = [tasks EXCEPT ![t] =
          [@ EXCEPT !.out = Append(@, Sent("report", tasks[t].idx, tasks[t].exit_code[1])),
                    !.pc = after_report(tasks[t], tasks[t].exit_code[1])]]
    /\ UNCHANGED <<probe, allow, system, dirs, cwd, cwd_file, disk_works, modes>>

\* on_message lines 479-480: "Stopped due to error at step idx", then break
SendStop(t) ==
    /\ tasks[t].pc = "send_stop"
    /\ tasks' = [tasks EXCEPT ![t] =
          [@ EXCEPT !.out = Append(@, Sent("stop", tasks[t].idx, 0)), !.pc = "done"]]
    /\ UNCHANGED <<probe, allow, system, dirs, cwd, cwd_file, disk_works, modes>>

\* the message of the interceptor is sent (run_cmd line 337, on_message lines
\* 428, 449, 467, cwd_cmd lines 504, 506); a plan continues with its next step
SendChanged(t) ==
    /\ tasks[t].pc = "send_changed"
    /\ tasks' = [tasks EXCEPT ![t] =
          [@ EXCEPT !.out = Append(@, Sent(tasks[t].changed.kind, tasks[t].idx, 0)),
                    !.pc = IF more_steps(tasks[t]) THEN "next_step" ELSE "done"]]
    /\ UNCHANGED <<probe, allow, system, dirs, cwd, cwd_file, disk_works, modes>>

\* the task of /cwd after cwd_store.set(key, target) gave r
cwd_task(k, path, target, r, before) ==
    [IdleTask EXCEPT !.handler = "cwd", !.pc = "send_changed", !.key = k,
                     !.arg = path, !.target = target, !.raised = r.raised,
                     !.pre = CwdStore_get(before, k),
                     !.post = CwdStore_get(r.cwd, k),
                     !.fs_seen = dirs,
                     !.changed = IF r.raised = None THEN ChangedMsg(r.ret)
                                 ELSE FailedMsg(r.raised)]

CwdSet(t, k, path, target) ==
    Intercepted(t, CwdStore_set(cwd, cwd_file, k, target, dirs, disk_works),
                cwd_task(k, path, target,
                         CwdStore_set(cwd, cwd_file, k, target, dirs, disk_works), cwd))

\* /cwd with a path: cwd_cmd lines 494, 500-506 up to the response
CwdChange(t, k, path) ==
    /\ tasks[t].pc = "idle"
    /\ passes_for(allow, k)
    /\ CwdSet(t, k, path, resolve_cd_target(cwd, k, path))
    /\ UNCHANGED <<probe, allow, system, dirs, disk_works, modes>>

\* the task of /cwd without a path: cwd_cmd lines 495-499
show_task(k, cwdmap) ==
    [IdleTask EXCEPT !.handler = "cwd", !.pc = "done", !.key = k,
                     !.pre = CwdStore_get(cwdmap, k),
                     !.post = CwdStore_get(cwdmap, k),
                     !.out = <<Sent("current", 0, 0)>>]

\* /cwd without a path: cwd_cmd lines 495-499
CwdShow(t, k) ==
    /\ tasks[t].pc = "idle"
    /\ passes_for(allow, k)
    /\ tasks' = [tasks EXCEPT ![t] = show_task(k, cwd)]
    /\ UNCHANGED <<probe, allow, system, dirs, cwd, cwd_file, disk_works, modes>>

\* the handler returned, or its exception reached the event loop: the slot is
\* free for the next event
Finish(t) ==
    /\ tasks[t].pc \in {"done", "crashed"}
    /\ tasks' = [tasks EXCEPT ![t] = IdleTask]
    /\ UNCHANGED <<probe, allow, system, dirs, cwd, cwd_file, disk_works, modes>>

\* /mode set: ModeGroup.set_mode
SetMode(k, v) ==
    /\ modes' = ModeStore_set(modes, k, v)
    /\ modes' # modes
    /\ UNCHANGED <<probe, allow, system, dirs, cwd, cwd_file, disk_works, tasks>>

(***************************************************************************)
(* The handlers from the arrival of the event: the gates first             *)
(***************************************************************************)

\* the handler answered "Not authorized." and returned
refused(handler, s) ==
    [IdleTask EXCEPT !.handler = handler, !.pc = "done", !.sender = s,
                     !.out = <<Sent("not_authorized", 0, 0)>>]

\* the handler returned without a word
ignored(handler, s) ==
    [IdleTask EXCEPT !.handler = handler, !.pc = "done", !.sender = s]

\* the three gates at the head of run_cmd, file_cmd, edit_file_cmd and
\* cwd_cmd; passed is the task of the handler behind them
gate_interaction(lists, s, handler, passed) ==
    IF ~user_allowed(lists, s) THEN refused(handler, s)
    ELSE IF ~is_allowed_user(lists, s.user) THEN ignored(handler, s)
    ELSE IF ~is_allowed_location(lists, s.channel, s.guild) THEN ignored(handler, s)
    ELSE [passed EXCEPT !.sender = s]

\* on_message lines 411-415: a direct message is handled in the default mode
mode_for(m, s) ==
    IF s.guild = NoGuild THEN DEFAULT_MODE
    ELSE ModeStore_get(m, channel_key_from_obj(s.channel))

\* on_message lines 401-420: a bot's message, a message stopped by a gate
\* and a blank message are dropped
gate_message(lists, m, s, content) ==
    IF s.bot THEN ignored("message", s)
    ELSE IF ~is_allowed_user(lists, s.user) THEN ignored("message", s)
    ELSE IF ~is_allowed_location(lists, s.channel, s.guild) THEN ignored("message", s)
    ELSE IF strip(content, " ") = <<>> THEN ignored("message", s)
    ELSE [message_task(mode_for(m, s), channel_key_from_obj(s.channel),
                       strip(content, " ")) EXCEPT !.sender = s]

\* /run from sender s
RunRequest(t, s, c) ==
    /\ tasks[t].pc = "idle"
    /\ tasks' = [tasks EXCEPT ![t] =
          gate_interaction(allow, s, "run",
                           run_task(channel_key_from_obj(s.channel), c))]
    /\ UNCHANGED <<probe, allow, system, dirs, cwd, cwd_file, disk_works, modes>>

\* a message from author s
MessageRequest(t, s, content) ==
    /\ tasks[t].pc = "idle"
    /\ tasks' = [tasks EXCEPT ![t] = gate_message(allow, modes, s, content)]
    /\ UNCHANGED <<probe, allow, system, dirs, cwd, cwd_file, disk_works, modes>>

\* cwd_cmd behind the gates, with a path
CwdPassed(t, s, k, path, target) ==
    Intercepted(t, CwdStore_set(cwd, cwd_file, k, target, dirs, disk_works),
                [cwd_task(k, path, target,
                          CwdStore_set(cwd, cwd_file, k, target, dirs, disk_works),
                          cwd) EXCEPT !.sender = s])

\* /cwd with a path from sender s
CwdRequest(t, s, path) ==
    /\ tasks[t].pc = "idle"
    /\ IF user_allowed(allow, s) /\ admitted(allow, s)
       THEN CwdPassed(t, s, channel_key_from_obj(s.channel), path,
                      resolve_cd_target(cwd, channel_key_from_obj(s.channel), path))
       ELSE /\ tasks' = [tasks EXCEPT ![t] =
                           gate_interaction(allow, s, "cwd", IdleTask)]
            /\ UNCHANGED <<cwd, cwd_file>>
    /\ UNCHANGED <<probe, allow, system, dirs, disk_works, modes>>

\* /cwd without a path from sender s
CwdShowRequest(t, s) ==
    /\ tasks[t].pc = "idle"
    /\ tasks' = [tasks EXCEPT ![t] =
          gate_interaction(allow, s, "cwd",
                           show_task(channel_key_from_obj(s.channel), cwd))]
    /\ UNCHANGED <<probe, allow, system, dirs, cwd, cwd_file, disk_works, modes>>

\* a handler that answers with one message and returns
answer_task(handler, kind) ==
    [IdleTask EXCEPT !.handler = handler, !.pc = "done",
                     !.out = <<Sent(kind, 0, 0)>>]

\* /file from sender s: file_cmd
FileRequest(t, s) ==
    /\ tasks[t].pc = "idle"
    /\ tasks' = [tasks EXCEPT ![t] =
          gate_interaction(allow, s, "file", answer_task("file", "modal"))]
    /\ UNCHANGED <<probe, allow, system, dirs, cwd, cwd_file, disk_works, modes>>

\* what open() and read() of a path that is no directory can do
OpenOutcomes == {"read", "FileNotFoundError", "OSError"}

\* edit_file_cmd lines 370-396: the answer for abs_path
edit_answer(abs_path, fs, found) ==
    IF ~startswith(abs_path, abspath(WORK_DIR)) THEN "invalid_path"
    ELSE IF isdir(fs, abs_path) THEN "is_a_directory"
    ELSE IF found = "read" THEN "modal"
    ELSE IF found = "FileNotFoundError" THEN "file_not_found"
    ELSE "error_opening"

\* /editfile from sender s: edit_file_cmd
EditFileRequest(t, s, path, found) ==
    /\ tasks[t].pc = "idle"
    /\ tasks' = [tasks EXCEPT ![t] =
          gate_interaction(allow, s, "editfile",
              answer_task("editfile",
                  edit_answer(abspath(path_join(abspath(WORK_DIR), strip(path, " "))),
                              dirs, found)))]
    /\ UNCHANGED <<probe, allow, system, dirs, cwd, cwd_file, disk_works, modes>>

(***************************************************************************)
(* Environment                                                             *)
(***************************************************************************)

\* another program (or a command that was run) creates a directory
MkDir(d) ==
    /\ d \notin dirs
    /\ dirs' = dirs \cup {d}
    /\ UNCHANGED <<probe, allow, system, cwd, cwd_file, disk_works, modes, tasks>>

\* another program (or a command that was run) removes a directory
RmDir(d) ==
    /\ d \in dirs
    /\ dirs' = dirs \ {d}
    /\ UNCHANGED <<probe, allow, system, cwd, cwd_file, disk_works, modes, tasks>>

\* the bot process is restarted: module level of bot.py, line 104
Restart ==
    /\ \A t \in TaskIds : tasks[t].pc = "idle"
    /\ cwd' = CwdStore_init(cwd_file, dirs)
    /\ cwd' # cwd
    /\ UNCHANGED <<probe, allow, system, dirs, cwd_file, disk_works, modes, tasks>>

\* the disk fills up or the snapshot directory becomes read-only, and back
DiskFault ==
    /\ disk_works' = ~disk_works
    /\ UNCHANGED <<probe, allow, system, dirs, cwd, cwd_file, modes, tasks>>

\* the handlers and the environment, with the modes of the channels as loaded
Next ==
    \/ \E t \in TaskIds, k \in Keys, c \in Commands : StartRun(t, k, c)
    \/ \E t \in TaskIds, k \in Keys, c \in Commands : StartMessage(t, k, c)
    \/ \E t \in TaskIds : Intercept(t)
    \/ \E t \in TaskIds, a \in OracleAnswers, ms \in 1..MaxSteps : OracleReturn(t, a, ms)
    \/ \E t \in TaskIds : Announce(t)
    \/ \E t \in TaskIds : PlanStep(t)
    \/ \E t \in TaskIds : SendHeader(t)
    \/ \E t \in TaskIds, rc \in ChildStatuses : ChildExit(t, rc)
    \/ \E t \in TaskIds : CommunicateReturn(t)
    \/ \E t \in TaskIds : Timeout(t)
    \/ \E t \in TaskIds : KillTakesEffect(t)
    \/ \E t \in TaskIds : WaitReturn(t)
    \/ \E t \in TaskIds : SendResult(t)
    \/ \E t \in TaskIds : SendStop(t)
    \/ \E t \in TaskIds : SendChanged(t)
    \/ \E t \in TaskIds, k \in Keys, path \in CwdArgs : CwdChange(t, k, path)
    \/ \E t \in TaskIds, k \in Keys : CwdShow(t, k)
    \/ \E t \in TaskIds : Finish(t)
    \/ \E d \in VolatileDirs : MkDir(d)
    \/ \E d \in VolatileDirs : RmDir(d)
    \/ Restart

\* the handlers with a reliable disk under the snapshot file
Spec == Init /\ [][Next]_vars

\* what the scheduling guarantees about run_command: the timer of
\* asyncio.wait_for fires, a killed process ends, and a coroutine whose await
\* completed is resumed by the event loop
Fairness ==
    \A t \in TaskIds :
        /\ WF_vars(Timeout(t))
        /\ WF_vars(KillTakesEffect(t))
        /\ WF_vars(WaitReturn(t))
        /\ WF_vars(CommunicateReturn(t))

\* the same handlers under that scheduling
SpecLive == Spec /\ Fairness

(***************************************************************************)
(* Functions called alone, on arguments the handlers do not produce        *)
(***************************************************************************)

\* the longest text given to summarize_output
MaxTextLen == 3

\* the largest limit given to summarize_output
MaxLimit == 3

RECURSIVE TextsOfLen(_)
TextsOfLen(n) ==
    IF n = 0 THEN {<<>>}
    ELSE {Append(t, c) : t \in TextsOfLen(n - 1), c \in {"a", "b"}}

\* the texts given to summarize_output
Texts == UNION {TextsOfLen(n) : n \in 0..MaxTextLen}

\* the calls summarize_output(text, limit) that are examined
SummarizeCalls ==
    {[fn |-> "summarize_output", text |-> t, limit |-> l, results |-> <<>>] :
        t \in Texts, l \in 1..MaxLimit}

\* summarize_output is applied to the text, then to its own result
Summarize ==
    /\ probe.fn = "summarize_output"
    /\ Len(probe.results) < 2
    /\ probe' = [probe EXCEPT !.results =
          Append(@, summarize_output(IF @ = <<>> THEN probe.text ELSE @[Len(@)],
                                     probe.limit))]
    /\ UNCHANGED <<system, dirs, cwd, cwd_file, disk_works, modes, tasks, allow>>

\* the snapshot files a directory store is built from
CwdFiles ==
    StartupFiles \cup
    {UnreadableFile, CorruptFile, ListFile(<<>>), ListFile(<<DirSub>>),
     ObjectFile((<<"1">> :> JsonNumber) @@ (<<"2">> :> DirSub))}

\* the constructions CwdStore(WORK_DIR, path) that are examined
CwdStoreCalls ==
    {[fn |-> "CwdStore", file |-> f, fs |-> StableDirs \cup v, done |-> FALSE,
      raised |-> None, cwd |-> EmptyMap] :
        f \in CwdFiles, v \in SUBSET VolatileDirs}

\* the result of a construction is recorded
constructed(call, r) == [call EXCEPT !.done = TRUE, !.raised = r.raised, !.cwd = r.cwd]

\* the module level of bot.py builds the directory store
NewCwdStore ==
    /\ probe.fn = "CwdStore"
    /\ ~probe.done
    /\ probe' = constructed(probe, CwdStore_new(probe.file, probe.fs))
    /\ UNCHANGED <<system, dirs, cwd, cwd_file, disk_works, modes, tasks, allow>>

\* the snapshot files a mode store is built from
ModeFiles ==
    {MissingFile, UnreadableFile, CorruptFile, ListFile(<<>>),
     ObjectFile(StartupModes),
     ObjectFile(<<"x">> :> "chat"),
     ObjectFile((<<"x">> :> "on") @@ (<<"2">> :> "command"))}

\* the constructions ModeStore(DEFAULT_MODE, path) that are examined
ModeStoreCalls ==
    {[fn |-> "ModeStore", file |-> f, done |-> FALSE,
      raised |-> None, modes |-> EmptyMap] : f \in ModeFiles}

\* the result of a construction is recorded
modes_constructed(call, r) ==
    [call EXCEPT !.done = TRUE, !.raised = r.raised, !.modes = r.modes]

\* the module level of bot.py builds the mode store
NewModeStore ==
    /\ probe.fn = "ModeStore"
    /\ ~probe.done
    /\ probe' = modes_constructed(probe, ModeStore_new(probe.file))
    /\ UNCHANGED <<system, dirs, cwd, cwd_file, disk_works, modes, tasks, allow>>

\* the mappings of strings given to save_json: paths, and strings with the
\* characters json.dump escapes
SnapshotMaps ==
    {EmptyMap,
     <<"1">> :> DirSub,
     (<<"1">> :> DirSub) @@ (<<"2">> :> DirRoot),
     (<<"1">> :> DirRoot) @@ (<<"2">> :> DirSub) @@ (<<"x">> :> <<>>),
     <<"1">> :> <<"C", ":", "\\", "w", "\\", "s">>,
     <<"1">> :> <<"/", "w", "/", "a", "\"", "b">>,
     <<"k", "\n">> :> <<" ", "/", "w", " ">>}

\* the calls save_json(path, data), each followed by load_json(path)
SaveCalls ==
    {[fn |-> "save_json", data |-> m, stage |-> "args", text |-> <<>>,
      loaded |-> EmptyMap] : m \in SnapshotMaps}

\* save_json writes the mapping
SaveSnapshot ==
    /\ probe.fn = "save_json" /\ probe.stage = "args"
    /\ probe' = [probe EXCEPT !.stage = "saved", !.text = save_json_text(probe.data)]
    /\ UNCHANGED <<system, dirs, cwd, cwd_file, disk_works, modes, tasks, allow>>

\* load_json reads the file back
LoadSnapshot ==
    /\ probe.fn = "save_json" /\ probe.stage = "saved"
    /\ probe' = [probe EXCEPT !.stage = "loaded",
                              !.loaded = load_json(file_of_text(probe.text))]
    /\ UNCHANGED <<system, dirs, cwd, cwd_file, disk_works, modes, tasks, allow>>

\* the paths given to CwdStore.set
SetArgs == {DirRoot, DirSub, DirSibling, DirElsewhere, <<"s">>}

\* the calls cwd_store.set(channel_id, new_dir) on a store loaded at startup,
\* each followed by a restart
SetCalls ==
    {[fn |-> "CwdStore.set", fs |-> StableDirs \cup v,
      before |-> CwdStore_init(f, StableDirs \cup v),
      channel_id |-> k, new_dir |-> d, stage |-> "args", raised |-> None,
      cwd |-> EmptyMap, file |-> f, text |-> <<>>, rebuilt |-> EmptyMap] :
        f \in StartupFiles, v \in SUBSET VolatileDirs, k \in Keys, d \in SetArgs}

\* what a call of set leaves: the map in memory, the file and its text
store_set(call, r) ==
    [call EXCEPT !.stage = "set", !.raised = r.raised, !.cwd = r.cwd,
                 !.file = r.file,
                 !.text = IF r.raised = None
                          THEN save_json_text(CwdStore_persist_data(r.cwd))
                          ELSE @]

\* cwd_store.set is called
StoreSet ==
    /\ probe.fn = "CwdStore.set" /\ probe.stage = "args"
    /\ probe' = store_set(probe, CwdStore_set(probe.before, probe.file,
                              probe.channel_id, probe.new_dir, probe.fs, TRUE))
    /\ UNCHANGED <<system, dirs, cwd, cwd_file, disk_works, modes, tasks, allow>>

\* the process restarts after a set that succeeded and builds the store from
\* the text of the file
StoreRebuild ==
    /\ probe.fn = "CwdStore.set" /\ probe.stage = "set" /\ probe.raised = None
    /\ probe' = [probe EXCEPT !.stage = "rebuilt",
          !.rebuilt = CwdStore_new(file_of_text(probe.text), probe.fs).cwd]
    /\ UNCHANGED <<system, dirs, cwd, cwd_file, disk_works, modes, tasks, allow>>

\* the calls mode_store.set(channel_id, mode) on a store loaded at startup,
\* each followed by a restart
ModeSetCalls ==
    {[fn |-> "ModeStore.set", before |-> ModeStore_init(m), channel_id |-> k,
      mode |-> v, stage |-> "args", modes |-> EmptyMap, file |-> MissingFile,
      rebuilt |-> EmptyMap] :
        m \in {EmptyMap, StartupModes}, k \in Keys, v \in {"command", "chat", "on"}}

\* what a call of set leaves: the map in memory and the file
mode_set(call, m) ==
    [call EXCEPT !.stage = "set", !.modes = m,
                 !.file = save_json(@, ModeStore_persist_data(m), TRUE)]

\* mode_store.set is called
ModeSet ==
    /\ probe.fn = "ModeStore.set" /\ probe.stage = "args"
    /\ probe' = mode_set(probe, ModeStore_set(probe.before, probe.channel_id, probe.mode))
    /\ UNCHANGED <<system, dirs, cwd, cwd_file, disk_works, modes, tasks, allow>>

\* the process restarts and builds the mode store from the file
ModeRebuild ==
    /\ probe.fn = "ModeStore.set" /\ probe.stage = "set"
    /\ probe' = [probe EXCEPT !.stage = "rebuilt",
                              !.rebuilt = ModeStore_new(probe.file).modes]
    /\ UNCHANGED <<system, dirs, cwd, cwd_file, disk_works, modes, tasks, allow>>

\* values of platform.system(): the three the code names, two other hosts,
\* the empty string of an undetermined host and a name in another case
Platforms == {"Windows", "Linux", "Darwin", "FreeBSD", "Java", "", "windows"}

\* no profile was computed yet
NoOSInfo == [name |-> ""]

\* the starts of run_command(command) on a host that are examined, up to the
\* argv handed to create_subprocess_exec
ShellCalls ==
    {[fn |-> "run_command", sys |-> p, command |-> c, osinfo |-> NoOSInfo,
      argv |-> <<>>] : p \in Platforms, c \in Commands}

\* run_command line 20: osinfo = detect_os()
DetectOs ==
    /\ probe.fn = "run_command"
    /\ probe.osinfo = NoOSInfo
    /\ probe' = [probe EXCEPT !.osinfo = detect_os(probe.sys)]
    /\ UNCHANGED <<system, dirs, cwd, cwd_file, disk_works, modes, tasks, allow>>

\* run_command line 21: argv = wrap_command_for_shell(command, osinfo)
WrapCommand ==
    /\ probe.fn = "run_command"
    /\ probe.osinfo # NoOSInfo
    /\ probe.argv = <<>>
    /\ probe' = [probe EXCEPT !.argv =
                    wrap_command_for_shell(probe.command, probe.osinfo)]
    /\ UNCHANGED <<system, dirs, cwd, cwd_file, disk_works, modes, tasks, allow>>

\* the calls that are examined
Calls ==
    SummarizeCalls \cup CwdStoreCalls \cup ModeStoreCalls \cup SaveCalls
        \cup SetCalls \cup ModeSetCalls \cup ShellCalls

InitCalls ==
    /\ system = "Linux"
    /\ dirs = StableDirs
    /\ cwd_file = MissingFile
    /\ cwd = EmptyMap
    /\ disk_works = TRUE
    /\ modes = EmptyMap
    /\ tasks = [t \in TaskIds |-> IdleTask]
    /\ probe \in Calls
    /\ allow = A_open

NextCalls ==
    \/ Summarize
    \/ NewCwdStore
    \/ NewModeStore
    \/ SaveSnapshot
    \/ LoadSnapshot
    \/ StoreSet
    \/ StoreRebuild
    \/ ModeSet
    \/ ModeRebuild
    \/ DetectOs
    \/ WrapCommand

SpecCalls == InitCalls /\ [][NextCalls]_vars

(***************************************************************************)
(* The handlers behind allow-lists: every event with its sender, on a host *)
(* whose directories stay as they are                                      *)
(***************************************************************************)

\* the commands of the events sent through the gates
GateCommands == {C_ls, C_cd_s, C_cd_s_and_ls, C_blank}

InitGate ==
    /\ system = "Linux"
    /\ dirs = StableDirs \cup VolatileDirs
    /\ cwd_file = MissingFile
    /\ cwd = CwdStore_init(cwd_file, dirs)
    /\ disk_works = TRUE
    /\ modes = ModeStore_init(StartupModes)
    /\ tasks = [t \in TaskIds |-> IdleTask]
    /\ probe = NoProbe
    /\ allow \in AllowConfigs

NextGate ==
    \/ \E t \in TaskIds, s \in Users, c \in GateCommands : RunRequest(t, s, c)
    \/ \E t \in TaskIds, s \in Authors, c \in GateCommands : MessageRequest(t, s, c)
    \/ \E t \in TaskIds, s \in Users, path \in CwdArgs : CwdRequest(t, s, path)
    \/ \E t \in TaskIds, s \in Users : CwdShowRequest(t, s)
    \/ \E t \in TaskIds, s \in Users : FileRequest(t, s)
    \/ \E t \in TaskIds, s \in Users, path \in CwdArgs, found \in OpenOutcomes :
          EditFileRequest(t, s, path, found)
    \/ \E t \in TaskIds : Intercept(t)
    \/ \E t \in TaskIds, a \in OracleAnswers, ms \in 1..MaxSteps : OracleReturn(t, a, ms)
    \/ \E t \in TaskIds : Announce(t)
    \/ \E t \in TaskIds : PlanStep(t)
    \/ \E t \in TaskIds : SendHeader(t)
    \/ \E t \in TaskIds, rc \in ChildStatuses : ChildExit(t, rc)
    \/ \E t \in TaskIds : CommunicateReturn(t)
    \/ \E t \in TaskIds : Timeout(t)
    \/ \E t \in TaskIds : KillTakesEffect(t)
    \/ \E t \in TaskIds : WaitReturn(t)
    \/ \E t \in TaskIds : SendResult(t)
    \/ \E t \in TaskIds : SendStop(t)
    \/ \E t \in TaskIds : SendChanged(t)
    \/ \E t \in TaskIds : Finish(t)

SpecGate == InitGate /\ [][NextGate]_vars

(***************************************************************************)
(* Two handlers in flight: the event loop runs one until its next await,   *)
(* then either of them                                                     *)
(***************************************************************************)

\* two handling tasks in flight together
TwoTasks == {"t1", "t2"}

\* the commands and the /cwd path sent while two handlers are in flight
TwoCommands == {C_ls, C_cd, C_cd_s_and_ls}
TwoCwdArgs == {<<"s">>}

\* the oracle plans ["cd s && ls", "cd", "ls"]
TwoAnswers == {Answer(OracleText(T_fenced), OracleError)}

InitTwo ==
    /\ system = "Linux"
    /\ dirs = StableDirs \cup VolatileDirs
    /\ cwd_file = MissingFile
    /\ cwd = CwdStore_init(cwd_file, dirs)
    /\ disk_works = TRUE
    /\ modes = ModeStore_init(StartupModes)
    /\ tasks = [t \in TwoTasks |-> IdleTask]
    /\ probe = NoProbe
    /\ allow = A_open

NextTwo ==
    \/ \E t \in TwoTasks, k \in Keys, c \in TwoCommands : StartRun(t, k, c)
    \/ \E t \in TwoTasks, k \in Keys, c \in TwoCommands : StartMessage(t, k, c)
    \/ \E t \in TwoTasks : Intercept(t)
    \/ \E t \in TwoTasks, a \in TwoAnswers : OracleReturn(t, a, MaxSteps)
    \/ \E t \in TwoTasks : Announce(t)
    \/ \E t \in TwoTasks : PlanStep(t)
    \/ \E t \in TwoTasks : SendHeader(t)
    \/ \E t \in TwoTasks, rc \in ChildStatuses : ChildExit(t, rc)
    \/ \E t \in TwoTasks : CommunicateReturn(t)
    \/ \E t \in TwoTasks : Timeout(t)
    \/ \E t \in TwoTasks : KillTakesEffect(t)
    \/ \E t \in TwoTasks : WaitReturn(t)
    \/ \E t \in TwoTasks : SendResult(t)
    \/ \E t \in TwoTasks : SendStop(t)
    \/ \E t \in TwoTasks : SendChanged(t)
    \/ \E t \in TwoTasks, k \in Keys, path \in TwoCwdArgs : CwdChange(t, k, path)
    \/ \E t \in TwoTasks : Finish(t)

SpecTwo == InitTwo /\ [][NextTwo]_vars

(***************************************************************************)
(* The handlers over a disk that can refuse the snapshot write             *)
(***************************************************************************)

InitDisk ==
    /\ system = "Linux"
    /\ dirs = StableDirs \cup VolatileDirs
    /\ cwd_file = MissingFile
    /\ cwd = CwdStore_init(cwd_file, dirs)
    /\ disk_works = TRUE
    /\ modes = ModeStore_init(StartupModes)
    /\ tasks = [t \in TaskIds |-> IdleTask]
    /\ probe = NoProbe
    /\ allow = A_open

NextDisk ==
    \/ \E t \in TaskIds, k \in Keys, c \in Commands : StartRun(t, k, c)
    \/ \E t \in TaskIds, k \in Keys, c \in Commands : StartMessage(t, k, c)
    \/ \E t \in TaskIds : Intercept(t)
    \/ \E t \in TaskIds, a \in OracleAnswers, ms \in 1..MaxSteps : OracleReturn(t, a, ms)
    \/ \E t \in TaskIds : Announce(t)
    \/ \E t \in TaskIds : PlanStep(t)
    \/ \E t \in TaskIds : SendHeader(t)
    \/ \E t \in TaskIds, rc \in ChildStatuses : ChildExit(t, rc)
    \/ \E t \in TaskIds : CommunicateReturn(t)
    \/ \E t \in TaskIds : Timeout(t)
    \/ \E t \in TaskIds : KillTakesEffect(t)
    \/ \E t \in TaskIds : WaitReturn(t)
    \/ \E t \in TaskIds : SendResult(t)
    \/ \E t \in TaskIds : SendStop(t)
    \/ \E t \in TaskIds : SendChanged(t)
    \/ \E t \in TaskIds, k \in Keys, path \in CwdArgs : CwdChange(t, k, path)
    \/ \E t \in TaskIds, k \in Keys : CwdShow(t, k)
    \/ \E t \in TaskIds : Finish(t)
    \/ DiskFault

SpecDisk == InitDisk /\ [][NextDisk]_vars

(***************************************************************************)
(* Properties                                                              *)
(***************************************************************************)

\* the configured sandbox root, written out
SandboxRoot == <<"/", "w">>

\* p is root or a directory below root in the directory tree
IsUnder(p, root) == p = root \/ startswith(p, root \o <<"/">>)

\* p is an absolute path without empty, "." or ".." components
IsNormalAbsolute(p) ==
    /\ p # <<>> /\ Head(p) = "/"
    /\ p # <<"/">> =>
         \A c \in {split(Tail(p), "/")[i] : i \in 1..Len(split(Tail(p), "/"))} :
             c \notin {<<>>, <<".">>, DotDot}

\* the handler of slot t called the interceptor on the current step of its plan
HasIntercepted(t) == tasks[t].idx \in tasks[t].intercepted

\* the instruction the handler of slot t intercepted last, trimmed
StepText(t) == strip(tasks[t].plan[tasks[t].idx], " ")

\* the handler of slot t called cwd_store.set for its current step
CalledSet(t) == tasks[t].target # <<>>

\* C1: every directory stored for a session key is SandboxRoot or a true
\* descendant of it, after any sequence of sets, interceptions and loads
C1_StoredUnderRoot ==
    \A k \in DOMAIN cwd : IsUnder(cwd[k], SandboxRoot)

\* C2: a set whose path resolves outside SandboxRoot fails with the sandbox
\* violation error (ValueError) and leaves get(key) as it was
C2_OutsideSetFails ==
    \A t \in TaskIds :
        (CalledSet(t) /\ ~IsUnder(tasks[t].target, SandboxRoot))
            => (tasks[t].raised = "ValueError" /\ tasks[t].post = tasks[t].pre)

\* C3: set on a directory that exists under SandboxRoot succeeds and get then
\* returns its normalized absolute form; set on a path under SandboxRoot that
\* is no existing directory fails with the not-a-directory error
\* (FileNotFoundError) and changes nothing; get on a key that has no entry
\* returns SandboxRoot
C3_SetUnderRoot ==
    /\ \A t \in TaskIds :
         (CalledSet(t) /\ IsUnder(tasks[t].target, SandboxRoot)) =>
             IF tasks[t].target \in tasks[t].fs_seen
             THEN /\ tasks[t].raised = None
                  /\ tasks[t].post = tasks[t].target
                  /\ IsNormalAbsolute(tasks[t].post)
             ELSE /\ tasks[t].raised = "FileNotFoundError"
                  /\ tasks[t].post = tasks[t].pre
    /\ \A k \in Keys \ DOMAIN cwd : CwdStore_get(cwd, k) = SandboxRoot

\* C3 happens: a session that was elsewhere is now in /w/s through a set
C3_Witness ==
    \E t \in TaskIds :
        /\ tasks[t].target = DirSub /\ tasks[t].raised = None
        /\ tasks[t].pre # DirSub /\ tasks[t].post = DirSub
        /\ cwd[tasks[t].key] = DirSub

\* the positions of the reports with a nonzero exit code among the messages
FailedReports(out) ==
    {i \in 1..Len(out) : out[i].kind = "report" /\ out[i].code # 0}

\* the positions of the stop notices among the messages
StopNotices(out) == {i \in 1..Len(out) : out[i].kind = "stop"}

\* C4 for the plan of one task
PlanStopsOnFailure(task) ==
    /\ Cardinality(StopNotices(task.out)) <= 1
    /\ \A i \in FailedReports(task.out) :
         /\ task.idx = task.out[i].idx
         /\ \A j \in task.intercepted \cup task.invoked : j <= task.out[i].idx
         /\ \/ i = Len(task.out) /\ task.pc = "send_stop"
            \/ /\ i = Len(task.out) - 1
               /\ task.out[i + 1] = Sent("stop", task.out[i].idx, 0)
               /\ task.pc = "done"
    /\ \A i \in StopNotices(task.out) : (i - 1) \in FailedReports(task.out)
    /\ (task.pc = "done" /\ FailedReports(task.out) = {}) =>
         (task.intercepted = 1..Len(task.plan) /\ StopNotices(task.out) = {})
    /\ task.intercepted = 1..task.idx
    /\ \A i, j \in 1..Len(task.out) : i < j => task.out[i].idx <= task.out[j].idx

\* C4: in a multi-step plan a step that returns a nonzero exit code (124 of a
\* timeout included) has its report sent, then one stop notice, and no later
\* step is intercepted or invoked; when every invoked step returns 0 all steps
\* are attempted in plan order and there is no stop notice
C4_PlanStopsOnFailure ==
    \A t \in TaskIds : tasks[t].handler = "plan" => PlanStopsOnFailure(tasks[t])

\* C4 happens: a plan ended after the stop notice for a step that timed out,
\* with steps left
C4_Witness ==
    \E t \in TaskIds :
        /\ tasks[t].handler = "plan" /\ tasks[t].pc = "done"
        /\ tasks[t].idx < Len(tasks[t].plan)
        /\ Len(tasks[t].out) >= 2
        /\ tasks[t].out[Len(tasks[t].out)].kind = "stop"
        /\ tasks[t].out[Len(tasks[t].out) - 1] =
               Sent("report", tasks[t].idx, TIMEOUT_EXIT_CODE)

\* C5: a recognized directory change that fails (outside the sandbox, or no
\* existing directory) gives no residual and an error message, and the caller
\* starts no process for that instruction
C5_FailedCdSpawnsNothing ==
    \A t \in TaskIds :
        tasks[t].raised \in {"ValueError", "FileNotFoundError"} =>
            /\ tasks[t].remainder = <<>>
            /\ tasks[t].changed = FailedMsg(tasks[t].raised)
            /\ tasks[t].idx \notin tasks[t].invoked
            /\ tasks[t].pc \in {"send_changed", "next_step", "done"}
            /\ tasks[t].handler # "plan" => tasks[t].spawned = 0

\* C5 happens: /run of "cd n && ls" ended without a process
C5_Witness ==
    \E t \in TaskIds :
        /\ tasks[t].handler = "run" /\ tasks[t].pc = "done"
        /\ tasks[t].plan = <<C_cd_n_and_ls>>
        /\ tasks[t].raised = "FileNotFoundError"
        /\ tasks[t].spawned = 0

\* the compound instructions of the inputs: cd <path> && <rest>, cd <path>; <rest>
CompoundForms ==
    {[text |-> C_cd_s_and_ls, path |-> <<"s">>, rest |-> C_ls],
     [text |-> C_cd_quoted_semi_ls, path |-> <<"s">>, rest |-> C_ls],
     [text |-> C_cd_up_semi_ls, path |-> DotDot, rest |-> C_ls],
     [text |-> C_cd_n_and_ls, path |-> <<"n">>, rest |-> C_ls]}

\* C6 for one task and one compound form, joined being the path joined to the
\* directory the session was in
CompoundCd(task, f, joined) ==
    (IsUnder(joined, SandboxRoot) /\ joined \in task.fs_seen) =>
        /\ task.remainder = f.rest
        /\ task.changed = NoMsg
        /\ task.post = joined
        /\ task.pc # "send_header" =>
             /\ task.idx \in task.invoked
             /\ task.command = f.rest
             /\ task.work_dir = joined

\* C6: for cd <path> && <rest> or cd <path>; <rest>, with <path> joined to the
\* session's current directory an existing directory under SandboxRoot, the
\* interceptor returns <rest> and no acknowledgement, the session directory
\* becomes the joined directory, and the caller invokes <rest> there
C6_CompoundCd ==
    \A t \in TaskIds, f \in CompoundForms :
        (HasIntercepted(t) /\ StepText(t) = f.text) =>
            CompoundCd(tasks[t], f, abspath(path_join(tasks[t].pre, f.path)))

\* C6 happens: in /w/s, "cd ..; ls" runs ls in /w
C6_Witness ==
    \E t \in TaskIds :
        /\ tasks[t].handler = "command" /\ tasks[t].plan = <<C_cd_up_semi_ls>>
        /\ tasks[t].pre = DirSub /\ tasks[t].post = DirRoot
        /\ tasks[t].child = "running" /\ tasks[t].work_dir = DirRoot
        /\ tasks[t].command = C_ls

\* C7: a bare cd sets the session directory to SandboxRoot and returns an
\* acknowledgement with no residual, whatever the session directory was
C7_BareCd ==
    \A t \in TaskIds :
        (HasIntercepted(t) /\ StepText(t) = C_cd) =>
            /\ tasks[t].post = SandboxRoot
            /\ tasks[t].remainder = <<>>
            /\ tasks[t].changed = [kind |-> "Changed", rel |-> <<".">>]
            /\ tasks[t].idx \notin tasks[t].invoked

\* C7 happens: a bare cd took a session from /w/s back to /w
C7_Witness ==
    \E t \in TaskIds :
        /\ HasIntercepted(t) /\ StepText(t) = C_cd
        /\ tasks[t].pre = DirSub /\ tasks[t].post = DirRoot

\* a directory change was recognized and applied
Applied(t) == CalledSet(t) /\ tasks[t].raised = None

\* exactly one of residual and acknowledgement is present
ExactlyOne(t) == (tasks[t].remainder # <<>>) # (tasks[t].changed # NoMsg)

\* neither residual nor acknowledgement is present
BothAbsent(t) == tasks[t].remainder = <<>> /\ tasks[t].changed = NoMsg

\* C8 as stated: exactly one of (residual, acknowledgement) when a directory
\* change was recognized and applied, both absent when the instruction is no
\* directory change at all
C8_BothAbsentWhenNoCd ==
    \A t \in TaskIds :
        (HasIntercepted(t) /\ tasks[t].handler # "cwd") =>
            /\ Applied(t) => ExactlyOne(t)
            /\ ~CalledSet(t) => BothAbsent(t)

\* C8 amended: exactly one of (residual, acknowledgement) when a directory
\* change was recognized and applied; an instruction that is no directory
\* change comes back trimmed as the residual, with no acknowledgement; both
\* are absent only for an instruction that is empty after trimming
C8_PassThrough ==
    \A t \in TaskIds :
        (HasIntercepted(t) /\ tasks[t].handler # "cwd") =>
            /\ Applied(t) => ExactlyOne(t)
            /\ ~CalledSet(t) =>
                 (tasks[t].changed = NoMsg /\ tasks[t].remainder = StepText(t))
            /\ BothAbsent(t) <=> StepText(t) = <<>>

\* C8 happens: "ls" came back as the residual
C8_Witness ==
    \E t \in TaskIds :
        /\ HasIntercepted(t) /\ StepText(t) = C_ls
        /\ tasks[t].remainder = C_ls /\ tasks[t].changed = NoMsg

\* run_command is waiting for the child of slot t
InInvoke(t) == tasks[t].pc \in {"communicate", "wait"}

\* run_command of slot t returned a result
Returned(t) == ~InInvoke(t) /\ tasks[t].exit_code # <<>>

\* C9, what holds in every state: outside run_command no child runs; when the
\* deadline expired the result is 124 with empty stdout and the timed-out text
InvokeLeavesNoChild ==
    \A t \in TaskIds :
        /\ ~InInvoke(t) => tasks[t].child \in {"none", "exited"}
        /\ (Returned(t) /\ tasks[t].timed_out) =>
             /\ tasks[t].exit_code = <<TIMEOUT_EXIT_CODE>>
             /\ tasks[t].stdout = ""
             /\ tasks[t].stderr = "Command timed out"
             /\ tasks[t].child = "exited"

\* C9: when the deadline expires first, invoke returns 124, empty stdout and
\* the timed-out message, with the child killed and its end awaited; every
\* invoke that started a child eventually returns and leaves no running child
C9_TimeoutKillsChild ==
    /\ []InvokeLeavesNoChild
    /\ \A t \in TaskIds : InInvoke(t) ~> (Returned(t) /\ tasks[t].child = "exited")

\* C9 happens: a timed-out invoke returned after its child was killed
C9_Witness ==
    \E t \in TaskIds :
        /\ Returned(t) /\ tasks[t].timed_out
        /\ tasks[t].returncode = <<KilledStatus>>
        /\ tasks[t].exit_code = <<TIMEOUT_EXIT_CODE>>

\* C10: a failure local to a step (sandbox violation, timeout, failure to
\* start the process) becomes that step's report; no handler ends with an
\* unhandled exception
C10_NoHandlerCrashes ==
    \A t \in TaskIds : tasks[t].pc # "crashed"

\* C11: summarize_output applied to its own result with the same limit gives
\* that result again, for every text and every limit; a text no longer than
\* the limit is returned unchanged
C11_SummarizeIdempotent ==
    probe.fn = "summarize_output" =>
        /\ Len(probe.results) = 2 => probe.results[2] = probe.results[1]
        /\ (Len(probe.results) >= 1 /\ Len(probe.text) <= probe.limit) =>
             probe.results[1] = probe.text

\* the entries of a snapshot object whose key is an integer and whose path is
\* an existing directory under SandboxRoot
UsableEntries(obj, fs) ==
    {k \in DOMAIN obj :
        /\ int_ok(k)
        /\ is_str(obj[k])
        /\ IsUnder(abspath(obj[k]), SandboxRoot)
        /\ abspath(obj[k]) \in fs}

\* the map that holds exactly the given entries of a snapshot object
MapOfEntries(obj, keys) ==
    [cid \in {int_of_str(k) : k \in keys} |->
        abspath(obj[CHOOSE k \in keys : int_of_str(k) = cid])]

\* C12: the directory store built from a snapshot object holds exactly the
\* entries whose path is an existing directory under SandboxRoot; every other
\* entry is absent, and the load raises nothing
C12_LoadKeepsExactly ==
    (probe.fn = "CwdStore" /\ probe.done /\ probe.file.kind = "object") =>
        /\ probe.raised = None
        /\ probe.cwd = MapOfEntries(probe.file.obj,
                                    UsableEntries(probe.file.obj, probe.fs))

\* C13: for every content of a snapshot file the directory store and the mode
\* store are built without an exception
C13_StoresBuiltFromAnyFile ==
    (probe.fn \in {"CwdStore", "ModeStore"} /\ probe.done) => probe.raised = None

\* every directory of the map exists
AllExist(cwdmap, fs) == \A k \in DOMAIN cwdmap : cwdmap[k] \in fs

\* C14 for the directory store: after a set that succeeded the file holds the
\* map in memory with its keys as strings, the text written reads back as that
\* file, and the store rebuilt from it has the same map when its directories
\* all exist
WriteThroughCwd ==
    (probe.fn = "CwdStore.set" /\ probe.stage # "args" /\ probe.raised = None) =>
        /\ probe.file = ObjectFile(CwdStore_persist_data(probe.cwd))
        /\ file_of_text(probe.text) = probe.file
        /\ (probe.stage = "rebuilt" /\ AllExist(probe.cwd, probe.fs)) =>
             probe.rebuilt = probe.cwd

\* C14 for the mode store
WriteThroughModes ==
    (probe.fn = "ModeStore.set" /\ probe.stage # "args") =>
        /\ probe.file = ObjectFile(ModeStore_persist_data(probe.modes))
        /\ probe.stage = "rebuilt" => probe.rebuilt = probe.modes

\* C14 for save_json followed by load_json
RoundTrip ==
    (probe.fn = "save_json" /\ probe.stage = "loaded") => probe.loaded = probe.data

\* C14: persistence is write-through and round-trips: after every successful
\* set on either store the durable snapshot equals the map in memory (keys as
\* strings), a store rebuilt from it with all directories existing has the
\* same map, and save_json followed by load_json returns the mapping saved
C14_WriteThroughRoundTrip ==
    WriteThroughCwd /\ WriteThroughModes /\ RoundTrip

\* C14 happens: a set added an entry to a loaded store, and the store rebuilt
\* from the text written has both entries
C14_Witness ==
    /\ probe.fn = "CwdStore.set" /\ probe.stage = "rebuilt"
    /\ probe.before # EmptyMap /\ probe.cwd # probe.before
    /\ probe.rebuilt = probe.cwd /\ Cardinality(DOMAIN probe.cwd) = 2

\* to_commands_from_nl returned a plan to the handler of slot t
PlanReturned(t) == tasks[t].oracle # "none" /\ tasks[t].crash # "HTTPError"

\* C15: for every text of the oracle and every max_steps the plan returned by
\* to_commands_from_nl has at least 1 and at most max_steps commands, so the
\* consumer that reads commands[0] never meets an empty plan
C15_PlanNeverEmpty ==
    \A t \in TaskIds :
        PlanReturned(t) =>
            /\ Len(tasks[t].plan) \in 1..tasks[t].max_steps
            /\ tasks[t].crash # "IndexError"

\* C16: when the oracle fails or its text holds no list of command strings,
\* the plan is the single placeholder command and the handler goes on with no
\* unhandled exception
C16_OracleFailureRecovered ==
    \A t \in TaskIds :
        tasks[t].oracle \in {"error", "fallback"} =>
            /\ tasks[t].crash # "HTTPError"
            /\ tasks[t].plan = <<fallback(is_windows)>>

\* the channel of an event as the allow-list sees it: a thread counts as its
\* parent channel
SenderChannel(s) ==
    IF s.channel.parent # NoParent THEN s.channel.parent ELSE s.channel.id

\* a non-empty allow-list leaves the sender out
Disallowed(lists, s) ==
    \/ lists.users # {} /\ s.user \notin lists.users
    \/ lists.guilds # {} /\ (s.guild = NoGuild \/ s.guild \notin lists.guilds)
    \/ lists.channels # {} /\ SenderChannel(s) \notin lists.channels

\* the handler of slot t is serving an event a non-empty allow-list leaves out
ServesDisallowed(lists, task) ==
    IF task.sender = NoSender THEN FALSE ELSE Disallowed(lists, task.sender)

\* the handler of slot t is serving a /run no list leaves out, everyone being
\* authorized
ServesAllowedRun(lists, task) ==
    IF task.sender = NoSender THEN FALSE
    ELSE task.handler = "run" /\ lists.everyone /\ ~Disallowed(lists, task.sender)

\* C17: an event (message, /run, /cwd, /file, /editfile) whose sender a
\* non-empty allow-list leaves out (user not listed; guild absent or not
\* listed; channel key, the parent for a thread, not listed) is dropped in
\* one step: no process is spawned, nothing is intercepted and the session
\* directories, their snapshot and the modes stay as they were; a /run that
\* no non-empty list leaves out is taken on, whatever lists are empty
C17_GatedEventsDoNothing ==
    [][\A t \in TaskIds :
         /\ ServesDisallowed(allow, tasks'[t]) =>
              /\ tasks'[t].pc = "done"
              /\ tasks'[t].spawned = 0
              /\ tasks'[t].child = "none"
              /\ tasks'[t].intercepted = {}
              /\ cwd' = cwd
              /\ cwd_file' = cwd_file
              /\ modes' = modes
         /\ (tasks[t].pc = "idle" /\ ServesAllowedRun(allow, tasks'[t])) =>
              tasks'[t].pc = "intercept"]_vars

\* a /run sent in a direct message was dropped because only the guild list
\* is set; the user and channel lists are empty
C17_Witness ==
    \E t \in TaskIds :
        /\ allow = A_guilds
        /\ tasks[t].sender = S_dm
        /\ tasks[t].handler = "run"
        /\ tasks[t].pc = "done"

\* the exit status of a child, 0 standing in for a missing one
RealStatus(returncode) == IF returncode = <<>> THEN 0 ELSE returncode[1]

\* a call of run_command is past the start of its child
InCall(task) == task.pc \in {"communicate", "wait", "send_result"}

KnownPlatforms == {"Windows", "Linux", "Darwin"}

\* the invocation vector of a profile for a command
InvocationVector(osinfo, command) ==
    IF osinfo.name = "Windows"
    THEN <<osinfo.shell, "-NoLogo", "-NoProfile", "-Command", command>>
    ELSE <<osinfo.shell, "-lc", command>>

\* the profile of a call fits the claim
ProfileFits(sys, osinfo) ==
    /\ osinfo.name \in KnownPlatforms
    /\ osinfo.is_windows <=> osinfo.name = "Windows"
    /\ sys \notin KnownPlatforms => (~osinfo.is_windows /\ osinfo.shell = "/bin/bash")

\* C19: for every value of platform.system(), detect_os gives a profile named
\* Windows, Linux or Darwin whose is_windows holds exactly for Windows; a value
\* it does not know gives a unix profile with shell /bin/bash; the argv is
\* [shell, -lc, command] for unix and [shell, -NoLogo, -NoProfile, -Command,
\* command] for windows
C19_ProfileAndVector ==
    probe.fn = "run_command" =>
        /\ probe.osinfo # NoOSInfo => ProfileFits(probe.sys, probe.osinfo)
        /\ probe.argv # <<>> =>
             probe.argv = InvocationVector(probe.osinfo, probe.command)

\* run_command on a FreeBSD host built the bash vector for `ls`
C19_Witness ==
    /\ probe.fn = "run_command"
    /\ probe.sys = "FreeBSD"
    /\ probe.argv = <<"/bin/bash", "-lc", C_ls>>

\* the step the plan of this task intercepted last gave an acknowledgement
\* and no residual
AckOnly(task) == task.changed # NoMsg /\ task.remainder = <<>>

\* the handler of slot t took a step
Moved(t) == tasks'[t] # tasks[t]

\* the acknowledgement of a step is sent: the plan goes on to its next step,
\* or ends after its last one, and the step has started no process
AckSent(old, new) ==
    /\ new.pc = IF old.idx < Len(old.plan) THEN "next_step" ELSE "done"
    /\ new.idx = old.idx
    /\ new.plan = old.plan
    /\ new.spawned = old.spawned
    /\ new.invoked = old.invoked
    /\ old.idx \notin old.invoked

\* the next step is intercepted, starting from the session directory current
\* by then
NextAttempted(old, new, current) ==
    /\ new.idx = old.idx + 1
    /\ new.idx \in new.intercepted
    /\ new.pre = current
    /\ new.pc \in {"send_changed", "send_header"}
    /\ AckOnly(old) => new.pre = old.post

\* C20: in a plan, a step whose interception gave an acknowledgement and no
\* residual (the directory changed, or the change failed) starts no process
\* and does not stop the plan: once the acknowledgement is sent the plan
\* intercepts its next step, from the session directory that step left, and
\* a process of the next step starts in the session directory current by then
C20_AckStepContinues ==
    [][\A t \in TaskIds :
         tasks[t].handler = "plan" =>
            /\ (tasks[t].pc = "send_changed" /\ Moved(t)) =>
                  AckSent(tasks[t], tasks'[t])
            /\ (tasks[t].pc = "next_step" /\ Moved(t)) =>
                  NextAttempted(tasks[t], tasks'[t],
                                CwdStore_get(cwd, tasks[t].key))
            /\ (tasks[t].pc = "send_header" /\ tasks'[t].pc = "communicate") =>
                  tasks'[t].work_dir = CwdStore_get(cwd', tasks[t].key)]_vars

\* the first step of a plan failed to change the directory and was
\* acknowledged without a process; the second step has its process running
C20_Witness ==
    \E t \in TaskIds :
        /\ tasks[t].handler = "plan"
        /\ tasks[t].pc = "communicate"
        /\ tasks[t].idx = 2
        /\ tasks[t].intercepted = {1, 2}
        /\ tasks[t].invoked = {2}
        /\ \E i \in 1..Len(tasks[t].out) :
              tasks[t].out[i].kind = "Failed" /\ tasks[t].out[i].idx = 1

\* the instruction begins with the token Set-Location, in any letter case
LeadsWithSetLocation(text) == startswith(lower(text), lower(TokSetLocation))

\* the instruction begins with the token cd, in any letter case
LeadsWithCd(text) == startswith(lower(text), TokCd)

\* the interceptor left the step of slot t alone: no set, the session
\* directory as it was, the instruction handed on as the command
PassedThrough(t) ==
    /\ ~CalledSet(t)
    /\ tasks[t].post = tasks[t].pre
    /\ tasks[t].changed = NoMsg
    /\ tasks[t].remainder = StepText(t)

\* C21: on unix an instruction that begins with Set-Location (bare or with an
\* argument, in any letter case) is not intercepted: the session directory
\* stays and the instruction is passed through as the command; on windows an
\* instruction that is Set-Location or cd, bare or followed by a blank and a
\* path, in any letter case, is intercepted
C21_RecognitionByPlatform ==
    \A t \in TaskIds :
        (HasIntercepted(t) /\ tasks[t].handler # "cwd") =>
            /\ (system # "Windows" /\ LeadsWithSetLocation(StepText(t))) =>
                  PassedThrough(t)
            /\ (system = "Windows" /\ StepText(t) \in
                    {C_cd, C_cd_s, C_CD_s, C_SetLocation, C_SetLocation_s}) =>
                  CalledSet(t)

\* the path argument of /cwd resolved against the sandbox root
FromRoot(arg) == abspath(path_join(SandboxRoot, strip(arg, " ")))

\* C22: /cwd with a path sets the session directory to the path resolved
\* against SandboxRoot, whatever the session directory was; /cwd without a
\* path reports the current directory and changes nothing
C22_CwdFromRoot ==
    \A t \in TaskIds :
        tasks[t].handler = "cwd" =>
            IF tasks[t].arg # <<>>
            THEN /\ tasks[t].target = FromRoot(tasks[t].arg)
                 /\ tasks[t].raised = None => tasks[t].post = FromRoot(tasks[t].arg)
            ELSE /\ tasks[t].post = tasks[t].pre
                 /\ tasks[t].out = <<Sent("current", 0, 0)>>

\* head + marker + tail for a head of h and a tail of tl characters of the
\* text, the marker printing what lies between them
HeadMarkerTail(text, h, tl) ==
    SubSeq(text, 1, h) \o MarkerOpen \o format_int(Len(text) - h - tl)
        \o MarkerClose \o SubSeq(text, Len(text) - tl + 1, Len(text))

\* C23: for a text longer than a positive limit, summarize_output returns
\* head + marker + tail with head the first floor(0.6 * limit) characters,
\* tail the last floor(0.35 * limit) characters, and the marker printing
\* len(text) - len(head) - len(tail), which is not negative: head and tail
\* do not overlap
C23_HeadMarkerTail ==
    (/\ probe.fn = "summarize_output"
     /\ Len(probe.results) >= 1
     /\ Len(probe.text) > probe.limit) =>
        probe.results[1] =
            HeadMarkerTail(probe.text, (6 * probe.limit) \div 10,
                           (35 * probe.limit) \div 100)

\* the handler of slot t took a step that starts a process
Spawns(t) == tasks'[t].pc = "communicate" /\ tasks[t].pc # "communicate"

\* C24: a step of a handler for session key k (a set, an interception, a
\* step of a plan) leaves get(k') as it was for every other key k', however
\* the handlers of two sessions interleave, and a process is started in the
\* directory of the handler's own session
C24_SessionIsolation ==
    [][\A t \in TwoTasks :
         /\ (tasks'[t] # tasks[t]) =>
               \A k \in Keys \ {tasks'[t].key} :
                   CwdStore_get(cwd', k) = CwdStore_get(cwd, k)
         /\ Spawns(t) =>
               tasks'[t].work_dir = CwdStore_get(cwd', tasks'[t].key)]_vars

\* two sessions at work together: the plan of session 1 moved to /w/s and
\* runs a command there while a command of session 2 runs in /w
C24_Witness ==
    /\ tasks["t1"].key = 1 /\ tasks["t2"].key = 2
    /\ tasks["t1"].handler = "plan"
    /\ tasks["t1"].child = "running" /\ tasks["t2"].child = "running"
    /\ tasks["t1"].work_dir = DirSub /\ tasks["t2"].work_dir = DirRoot
    /\ CwdStore_get(cwd, 1) = DirSub /\ CwdStore_get(cwd, 2) = DirRoot

\* the step the plan of this task intercepted last changed the directory and
\* gave an acknowledgement with no residual
CdStepDone(task) == AckOnly(task) /\ task.changed.kind = "Changed"

\* C25: with two handlers of one session key in flight, interleaving at
\* their awaits, a plan step whose directory change succeeded with a residual
\* starts the residual in the directory that change set, and the step after
\* a successful cd step of the plan starts from the directory that cd set and
\* runs its command there
C25_PlanKeepsItsDirectory ==
    [][\A t \in TwoTasks :
         tasks[t].handler = "plan" =>
            /\ (tasks[t].pc = "next_step" /\ CdStepDone(tasks[t])
                  /\ tasks'[t] # tasks[t]) =>
                  tasks'[t].pre = tasks[t].post
            /\ Spawns(t) => tasks'[t].work_dir = tasks[t].post]_vars

\* C26: when a directory change reports failure (the interceptor or /cwd
\* answers "Failed to change directory", set having raised), the directory
\* of the session in memory is what it was before the operation, also when
\* it was the write of the snapshot that failed after the path was accepted
C26_FailureChangesNothing ==
    \A t \in TaskIds :
        (CalledSet(t) /\ tasks[t].raised # None) =>
            /\ tasks[t].changed.kind = "Failed"
            /\ tasks[t].post = tasks[t].pre

====
